---- MODULE Spec2Model ----
(***************************************************************************)
(* FotoFiler naming and organization engine                                *)
(* (fotofiler/core/naming.py, fotofiler/core/organization.py,              *)
(* fotofiler/ui/cli.py).                                                   *)
(*                                                                         *)
(* Python strings are modelled as sequences of one-character strings, so   *)
(* that splitting, joining, substitution and sanitization are computed     *)
(* character by character as the code computes them.                       *)
(***************************************************************************)
EXTENDS Integers, Sequences, FiniteSets, TLC

\* ------------------------------------------------------------------------
\* Bounds of the model
\* ------------------------------------------------------------------------

\* longest pattern string handed to NamingEngine(pattern=...) in SpecTemplate
MaxPatLen == 4

\* longest attribute value drawn for generate_filename in SpecName and for
\* determine_destination_path in SpecDirectory
MaxValLen == 2

\* number of files the scan of the source directory can find
MaxFiles == 3

\* number of operating-system faults injected into one run
MaxFaults == 1

\* longest string handed to _clean_filename in SpecClean
MaxCleanLen == 4

\* ------------------------------------------------------------------------
\* Python string primitives
\* ------------------------------------------------------------------------

\* Python's None, distinct from every character string
None == <<"None">>

\* characters matched by \w that occur in the model
WordChars ==
  {"a", "b", "c", "d", "e", "f", "g", "h", "i", "j", "k", "l", "m", "n",
   "o", "p", "q", "r", "s", "t", "u", "v", "w", "x", "y", "z",
   "0", "1", "2", "3", "4", "5", "6", "7", "8", "9", "_"}

\* s.count(c)
Count(s, c) == Cardinality({i \in 1..Len(s) : s[i] = c})

\* s.startswith(t) at offset i (1-based): s[i .. i+len(t)-1] == t
MatchAt(s, t, i) ==
  /\ i + Len(t) - 1 <= Len(s)
  /\ \A j \in 1..Len(t) : s[i + j - 1] = t[j]

\* s.replace(old, new) for a non-empty old: leftmost non-overlapping
\* occurrences, scanned left to right
RECURSIVE ReplaceFrom(_, _, _, _)
ReplaceFrom(s, old, new, i) ==
  IF i > Len(s) THEN <<>>
  ELSE IF MatchAt(s, old, i)
       THEN new \o ReplaceFrom(s, old, new, i + Len(old))
       ELSE <<s[i]>> \o ReplaceFrom(s, old, new, i + 1)

Replace(s, old, new) == ReplaceFrom(s, old, new, 1)

\* ------------------------------------------------------------------------
\* NamingEngine: construction and pattern validation
\* ------------------------------------------------------------------------

DEFAULT_PATTERN ==
  <<"{", "d", "a", "t", "e", "t", "i", "m", "e", "}", "_",
    "{", "o", "r", "i", "g", "i", "n", "a", "l", "_",
    "f", "i", "l", "e", "n", "a", "m", "e", "}">>

\* re.match(r'^[^{}]*({\w+}[^{}]*)*$', pattern), as the automaton of the
\* expression: q = "lit" inside [^{}]*, "open" right after "{" (\w+ needs
\* one character), "name" inside \w+.
RECURSIVE PlaceholderFormatFrom(_, _, _)
PlaceholderFormatFrom(pattern, i, q) ==
  IF i > Len(pattern) THEN q = "lit"
  ELSE LET c == pattern[i] IN
       CASE q = "lit"  -> IF c = "{" THEN PlaceholderFormatFrom(pattern, i + 1, "open")
                          ELSE IF c = "}" THEN FALSE
                          ELSE PlaceholderFormatFrom(pattern, i + 1, "lit")
         [] q = "open" -> IF c \in WordChars
                          THEN PlaceholderFormatFrom(pattern, i + 1, "name")
                          ELSE FALSE
         [] q = "name" -> IF c \in WordChars
                          THEN PlaceholderFormatFrom(pattern, i + 1, "name")
                          ELSE IF c = "}"
                          THEN PlaceholderFormatFrom(pattern, i + 1, "lit")
                          ELSE FALSE

\* mutant of PlaceholderFormat: {\w*} in place of {\w+}
PlaceholderFormat_EmptyName(pattern) ==
  PlaceholderFormatFrom(Replace(pattern, <<"{", "}">>, <<"{", "a", "}">>), 1, "lit")

PlaceholderFormat(pattern) == PlaceholderFormatFrom(pattern, 1, "lit")

\* NamingEngine._validate_pattern: "ok" or the ValueError it raises
validate_pattern(pattern) ==
  IF pattern = <<>> THEN "ValueError: Naming pattern cannot be empty"
  ELSE IF Count(pattern, "{") # Count(pattern, "}")
       THEN "ValueError: Naming pattern has unbalanced braces"
  ELSE IF ~PlaceholderFormat(pattern)
       THEN "ValueError: Naming pattern has invalid placeholder format"
  ELSE "ok"

\* self.pattern = pattern or self.DEFAULT_PATTERN
\* (None and the empty string are both falsy)
EffectivePattern(pattern) ==
  IF pattern = None \/ pattern = <<>> THEN DEFAULT_PATTERN ELSE pattern

\* NamingEngine.__init__: the engine's fields, or the error raised
NamingEngineInit(pattern) ==
  LET p == EffectivePattern(pattern)
      v == validate_pattern(p)
  IN  IF v = "ok" THEN [ok |-> TRUE, pattern |-> p, error |-> "none"]
      ELSE [ok |-> FALSE, pattern |-> p, error |-> v]

\* ------------------------------------------------------------------------
\* Attribute maps (metadata dictionaries)
\* ------------------------------------------------------------------------

\* keys of the metadata dictionary that the engine itself reads
EXTENSION == <<"e", "x", "t", "e", "n", "s", "i", "o", "n">>
FILE_PATH == <<"f", "i", "l", "e", "_", "p", "a", "t", "h">>

Digits == <<"0", "1", "2", "3", "4", "5", "6", "7", "8", "9">>

\* str(n) for a non-negative integer n
RECURSIVE IntToStr(_)
IntToStr(n) ==
  IF n < 10 THEN <<Digits[n + 1]>>
  ELSE IntToStr(n \div 10) \o <<Digits[(n % 10) + 1]>>

\* a metadata value is a string or (exiftool's JSON numbers) an integer
StrV(s) == [kind |-> "str", s |-> s, n |-> 0]
IntV(n) == [kind |-> "int", s |-> <<>>, n |-> n]

\* str(v)
Str(v) == IF v.kind = "int" THEN IntToStr(v.n) ELSE v.s

\* bool(v): the empty string and 0 are falsy
Truthy(v) == IF v.kind = "int" THEN v.n # 0 ELSE v.s # <<>>

\* ------------------------------------------------------------------------
\* NamingEngine.generate_filename
\* ------------------------------------------------------------------------

\* index of the first brace at or after i, or 0
RECURSIVE NextBrace(_, _)
NextBrace(s, i) ==
  IF i > Len(s) THEN 0
  ELSE IF s[i] \in {"{", "}"} THEN i
  ELSE NextBrace(s, i + 1)

\* re.findall(r'{([^{}]+)}', s): the names of the non-overlapping matches,
\* left to right
RECURSIVE FindAllFrom(_, _)
FindAllFrom(s, i) ==
  IF i > Len(s) THEN <<>>
  ELSE IF s[i] # "{" THEN FindAllFrom(s, i + 1)
  ELSE LET j == NextBrace(s, i + 1) IN
       IF j > i + 1 /\ s[j] = "}"
       THEN <<SubSeq(s, i + 1, j - 1)>> \o FindAllFrom(s, j + 1)
       ELSE FindAllFrom(s, i + 1)

FindAll(s) == FindAllFrom(s, 1)

\* f"{{{placeholder}}}"
Braced(placeholder) == <<"{">> \o placeholder \o <<"}">>

\* the condition of naming.py line 77
MissingForName(metadata, placeholder) ==
  \/ placeholder \notin DOMAIN metadata
  \/ Str(metadata[placeholder]) = <<>>

\* mutant of NameValue: the hierarchy resolver's "unknown" policy
NameValue_Unknown(metadata, placeholder) ==
  IF MissingForName(metadata, placeholder)
  THEN <<"u", "n", "k", "n", "o", "w", "n">>
  ELSE Str(metadata[placeholder])

\* the value substituted for one placeholder (lines 77-82)
NameValue(metadata, placeholder) ==
  IF MissingForName(metadata, placeholder) THEN <<>>
  ELSE Str(metadata[placeholder])

\* the substitution loop of lines 76-85, from the k-th placeholder on
RECURSIVE SubstituteName(_, _, _, _)
SubstituteName(new_filename, placeholders, metadata, k) ==
  IF k > Len(placeholders) THEN new_filename
  ELSE SubstituteName(
         Replace(new_filename, Braced(placeholders[k]),
                 NameValue(metadata, placeholders[k])),
         placeholders, metadata, k + 1)

\* the warnings logged by the loop, in order (line 78)
NameWarnings(placeholders, metadata) ==
  SelectSeq(placeholders, LAMBDA ph : MissingForName(metadata, ph))

InvalidChars == {"<", ">", ":", "\"", "/", "\\", "|", "?", "*"}

\* re.sub(r'[<>:"/\\|?*]', '_', filename)
ReplaceInvalid(s) == [i \in 1..Len(s) |-> IF s[i] \in InvalidChars THEN "_" ELSE s[i]]

\* re.sub(r'_+', '_', s)
RECURSIVE CollapseUnderscores(_)
CollapseUnderscores(s) ==
  IF Len(s) <= 1 THEN s
  ELSE IF s[1] = "_" /\ s[2] = "_" THEN CollapseUnderscores(Tail(s))
  ELSE <<s[1]>> \o CollapseUnderscores(Tail(s))

\* s.lstrip('_') and s.rstrip('_')
RECURSIVE LStrip(_, _)
LStrip(s, c) == IF s # <<>> /\ s[1] = c THEN LStrip(Tail(s), c) ELSE s

RECURSIVE RStrip(_, _)
RStrip(s, c) ==
  IF s # <<>> /\ s[Len(s)] = c THEN RStrip(SubSeq(s, 1, Len(s) - 1), c) ELSE s

Strip(s, c) == RStrip(LStrip(s, c), c)

UNNAMED_FILE == <<"u", "n", "n", "a", "m", "e", "d", "_", "f", "i", "l", "e">>

\* mutant of clean_filename: the underscores are trimmed before the invalid
\* characters are replaced
clean_filename_StripFirst(filename) ==
  LET clean_name == CollapseUnderscores(ReplaceInvalid(Strip(filename, "_")))
  IN  IF clean_name = <<>> THEN UNNAMED_FILE ELSE clean_name

\* NamingEngine._clean_filename
clean_filename(filename) ==
  LET clean_name == Strip(CollapseUnderscores(ReplaceInvalid(filename)), "_")
  IN  IF clean_name = <<>> THEN UNNAMED_FILE ELSE clean_name

\* mutant of AppendExtension: the dot is appended whenever the key is there
AppendExtension_Always(new_filename, metadata) ==
  IF EXTENSION \in DOMAIN metadata
  THEN new_filename \o <<".">> \o Str(metadata[EXTENSION])
  ELSE new_filename

\* lines 91-92: the extension is appended as it is found in the metadata
AppendExtension(new_filename, metadata) ==
  IF EXTENSION \in DOMAIN metadata /\ Truthy(metadata[EXTENSION])
  THEN new_filename \o <<".">> \o Str(metadata[EXTENSION])
  ELSE new_filename

\* NamingEngine.generate_filename; it has no raise statement, so the
\* result always carries a name
generate_filename(pattern, metadata) ==
  LET placeholders == FindAll(pattern)
      substituted  == SubstituteName(pattern, placeholders, metadata, 1)
  IN  [raised   |-> FALSE,
       name     |-> AppendExtension(clean_filename(substituted), metadata),
       warnings |-> NameWarnings(placeholders, metadata)]

\* ------------------------------------------------------------------------
\* os.path (posixpath)
\* ------------------------------------------------------------------------

\* s.rfind(c), 1-based; 0 when absent
RECURSIVE RFind(_, _, _)
RFind(s, c, i) ==
  IF i = 0 THEN 0 ELSE IF s[i] = c THEN i ELSE RFind(s, c, i - 1)

\* os.path.join(a, b)
Join(a, b) ==
  IF b # <<>> /\ b[1] = "/" THEN b
  ELSE IF a = <<>> \/ a[Len(a)] = "/" THEN a \o b
  ELSE a \o <<"/">> \o b

\* os.path.dirname(p)
Dirname(p) ==
  LET i    == RFind(p, "/", Len(p))
      head == SubSeq(p, 1, i)
  IN  IF head # <<>> /\ RStrip(head, "/") # <<>> THEN RStrip(head, "/") ELSE head

\* os.path.basename(p)
Basename(p) == SubSeq(p, RFind(p, "/", Len(p)) + 1, Len(p))

\* os.path.splitext(p): the last dot of the last component splits, unless
\* only dots precede it in that component
SplitExt(p) ==
  LET sepIndex == RFind(p, "/", Len(p))
      dotIndex == RFind(p, ".", Len(p))
  IN  IF /\ dotIndex > sepIndex
         /\ \E k \in (sepIndex + 1)..(dotIndex - 1) : p[k] # "."
      THEN <<SubSeq(p, 1, dotIndex - 1), SubSeq(p, dotIndex, Len(p))>>
      ELSE <<p, <<>> >>

\* ------------------------------------------------------------------------
\* NamingEngine.handle_duplicates
\* ------------------------------------------------------------------------

\* f"{name}_{counter}{ext}" joined to the directory (lines 143-144)
Numbered(filepath, counter) ==
  LET directory == Dirname(filepath)
      parts     == SplitExt(Basename(filepath))
  IN  Join(directory, parts[1] \o <<"_">> \o IntToStr(counter) \o parts[2])

\* the while loop of lines 142-145; exists is the set of paths for which
\* os.path.exists is true
RECURSIVE ProbeFrom(_, _, _, _)
ProbeFrom(filepath, new_filepath, counter, exists) ==
  IF new_filepath \in exists
  THEN ProbeFrom(filepath, Numbered(filepath, counter), counter + 1, exists)
  ELSE new_filepath

\* mutant of handle_duplicates: the counter starts at 2
handle_duplicates_From2(filepath, exists) ==
  IF filepath \notin exists THEN filepath
  ELSE ProbeFrom(filepath, filepath, 2, exists)

\* mutant of handle_duplicates: the counter starts at 0
handle_duplicates_From0(filepath, exists) ==
  IF filepath \notin exists THEN filepath
  ELSE ProbeFrom(filepath, filepath, 0, exists)

\* mutant of handle_duplicates: the candidate is returned as it is
handle_duplicates_Unchecked(filepath, exists) == filepath

\* NamingEngine.handle_duplicates
handle_duplicates(filepath, exists) ==
  IF filepath \notin exists THEN filepath
  ELSE ProbeFrom(filepath, filepath, 1, exists)

\* ------------------------------------------------------------------------
\* OrganizationEngine
\* ------------------------------------------------------------------------

FLAT == <<"f", "l", "a", "t">>
UNKNOWN == <<"u", "n", "k", "n", "o", "w", "n">>

HIERARCHY_TEMPLATES ==
  (<<"f", "l", "a", "t">> :> <<>>) @@
  (<<"d", "a", "t", "e">> :> <<"{", "y", "e", "a", "r", "}", "/", "{", "m", "o", "n", "t", "h", "}", "/", "{", "d", "a", "y", "}">>) @@
  (<<"y", "e", "a", "r", "_", "m", "o", "n", "t", "h">> :> <<"{", "y", "e", "a", "r", "}", "/", "{", "m", "o", "n", "t", "h", "}">>) @@
  (<<"y", "e", "a", "r">> :> <<"{", "y", "e", "a", "r", "}">>) @@
  (<<"c", "a", "m", "e", "r", "a">> :> <<"{", "c", "a", "m", "e", "r", "a", "}">>) @@
  (<<"c", "a", "m", "e", "r", "a", "_", "d", "a", "t", "e">> :> <<"{", "c", "a", "m", "e", "r", "a", "}", "/", "{", "y", "e", "a", "r", "}", "/", "{", "m", "o", "n", "t", "h", "}", "/", "{", "d", "a", "y", "}">>) @@
  (<<"y", "e", "a", "r", "_", "c", "a", "m", "e", "r", "a">> :> <<"{", "y", "e", "a", "r", "}", "/", "{", "c", "a", "m", "e", "r", "a", "}">>)

\* mutant of OrganizationEngineInit: the hierarchy is stored as given
OrganizationEngineInit_Verbatim(hierarchy) ==
  IF hierarchy = None THEN <<>> ELSE hierarchy

\* OrganizationEngine.__init__, lines 40-45: self.hierarchy_pattern.  The
\* pattern is stored as given; nothing inspects its braces.
OrganizationEngineInit(hierarchy) ==
  IF hierarchy = None \/ hierarchy = FLAT THEN <<>>
  ELSE IF hierarchy \in DOMAIN HIERARCHY_TEMPLATES THEN HIERARCHY_TEMPLATES[hierarchy]
  ELSE hierarchy

\* s.split('/')
RECURSIVE SplitSlash(_, _, _)
SplitSlash(s, i, cur) ==
  IF i > Len(s) THEN <<cur>>
  ELSE IF s[i] = "/" THEN <<cur>> \o SplitSlash(s, i + 1, <<>>)
  ELSE SplitSlash(s, i + 1, Append(cur, s[i]))

Split(s) == SplitSlash(s, 1, <<>>)

\* mutant of SegmentValue: the naming policy, nothing for a missing value
SegmentValue_Empty(metadata, placeholder) ==
  IF placeholder \in DOMAIN metadata /\ Truthy(metadata[placeholder])
  THEN Str(metadata[placeholder])
  ELSE <<>>

\* the value substituted for one placeholder of a segment (lines 94-100)
SegmentValue(metadata, placeholder) ==
  IF placeholder \in DOMAIN metadata /\ Truthy(metadata[placeholder])
  THEN Str(metadata[placeholder])
  ELSE UNKNOWN

\* the inner loop of lines 93-100, from the k-th placeholder on
RECURSIVE SubstituteSegment(_, _, _, _)
SubstituteSegment(segment_value, placeholders, metadata, k) ==
  IF k > Len(placeholders) THEN segment_value
  ELSE SubstituteSegment(
         Replace(segment_value, Braced(placeholders[k]),
                 SegmentValue(metadata, placeholders[k])),
         placeholders, metadata, k + 1)

\* mutant of SkipSegment: empty segments are joined like the others
SkipSegment_Never(segment) == FALSE

\* lines 83-84: if not segment: continue
SkipSegment(segment) == segment = <<>>

\* the outer loop of lines 82-103, from the k-th segment on
RECURSIVE JoinSegments(_, _, _, _)
JoinSegments(dest_path, hierarchy_segments, metadata, k) ==
  IF k > Len(hierarchy_segments) THEN dest_path
  ELSE LET segment == hierarchy_segments[k] IN
       IF SkipSegment(segment)
       THEN JoinSegments(dest_path, hierarchy_segments, metadata, k + 1)
       ELSE JoinSegments(
              Join(dest_path,
                   SubstituteSegment(segment, FindAll(segment), metadata, 1)),
              hierarchy_segments, metadata, k + 1)

\* the values of segment_value joined at line 103, in order, from the k-th
\* segment on
RECURSIVE AppendedSegments(_, _, _)
AppendedSegments(hierarchy_segments, metadata, k) ==
  IF k > Len(hierarchy_segments) THEN <<>>
  ELSE LET segment == hierarchy_segments[k] IN
       IF SkipSegment(segment)
       THEN AppendedSegments(hierarchy_segments, metadata, k + 1)
       ELSE <<SubstituteSegment(segment, FindAll(segment), metadata, 1)>>
              \o AppendedSegments(hierarchy_segments, metadata, k + 1)

\* OrganizationEngine.determine_destination_path
determine_destination_path(destination, hierarchy_pattern, metadata) ==
  IF hierarchy_pattern = <<>> THEN destination
  ELSE JoinSegments(destination, Split(hierarchy_pattern), metadata, 1)

\* ------------------------------------------------------------------------
\* The filesystem: fs.files is the set of paths of regular files, fs.dirs
\* the set of paths of directories
\* ------------------------------------------------------------------------

\* os.path.exists
Exists(fs) == fs.files \cup fs.dirs

\* the directories os.makedirs(directory) has to create or find
RECURSIVE Ancestors(_)
Ancestors(directory) ==
  IF directory = <<>> \/ directory = <<"/">> THEN {}
  ELSE {directory} \cup Ancestors(Dirname(directory))

\* Faults the operating system can answer a call with:
\*   "none"          every call succeeds
\*   "makedirs"      os.makedirs raises PermissionError/OSError
\*   "transfer"      shutil.move / shutil.copy2 raises before writing anything
\*   "partial"       shutil.move / shutil.copy2 raises after the destination
\*                   was written (the source is still in place)
\*   "cross_device"  os.rename fails across devices: shutil.move falls back
\*                   to copy2 followed by os.unlink, and succeeds
Faults == {"none", "makedirs", "transfer", "partial", "cross_device"}

\* mutant of ensure_directory_exists: the directory is never created
ensure_directory_exists_Skip(directory, fs, fault) ==
  [raised |-> FALSE, fs |-> fs, faulted |-> FALSE]

\* OrganizationEngine._ensure_directory_exists
ensure_directory_exists(directory, fs, fault) ==
  IF directory \in Exists(fs)
  THEN [raised |-> FALSE, fs |-> fs, faulted |-> FALSE]
  ELSE IF fault = "makedirs"
  THEN [raised |-> TRUE, fs |-> fs, faulted |-> TRUE]
  ELSE IF Ancestors(directory) \cap fs.files # {}
  THEN [raised |-> TRUE, fs |-> fs, faulted |-> FALSE]
  ELSE [raised |-> FALSE,
        fs |-> [fs EXCEPT !.dirs = @ \cup Ancestors(directory)],
        faulted |-> FALSE]

\* mutant of transfer: an existing destination is never replaced
transfer_NoClobber(source_path, dest_path, move, fs, fault) ==
  IF Dirname(dest_path) \notin fs.dirs \/ dest_path \in fs.files
  THEN [raised |-> TRUE, fs |-> fs, faulted |-> FALSE, fallback |-> FALSE]
  ELSE [raised |-> FALSE,
        fs |-> [fs EXCEPT !.files =
                  IF move THEN (@ \ {source_path}) \cup {dest_path}
                  ELSE @ \cup {dest_path}],
        faulted |-> FALSE, fallback |-> FALSE]

\* shutil.move(source_path, dest_path) / shutil.copy2(source_path, dest_path),
\* lines 156-164; fallback tells whether shutil.move went through its
\* copy-and-delete path (a move that writes the destination and keeps the
\* source can only be that path)
transfer(source_path, dest_path, move, fs, fault) ==
  IF Dirname(dest_path) \notin fs.dirs
  THEN [raised |-> TRUE, fs |-> fs, faulted |-> FALSE, fallback |-> FALSE]
  ELSE IF fault = "transfer"
  THEN [raised |-> TRUE, fs |-> fs, faulted |-> TRUE, fallback |-> FALSE]
  ELSE IF fault = "partial"
  THEN [raised |-> TRUE,
        fs |-> [fs EXCEPT !.files = @ \cup {dest_path}],
        faulted |-> TRUE, fallback |-> move]
  ELSE [raised |-> FALSE,
        fs |-> [fs EXCEPT !.files =
                  IF move THEN (@ \ {source_path}) \cup {dest_path}
                  ELSE @ \cup {dest_path}],
        faulted |-> move /\ fault = "cross_device",
        fallback |-> move /\ fault = "cross_device"]

\* the warning-level signals organize_file gives its caller: it logs with
\* logger.info (line 144) and logger.error (lines 129, 162) only
OrganizeWarnings(fallback) == {}

\* what organize_file hands back: the (source_path, dest_path) tuple or the
\* exception, the filesystem it leaves, the handle_duplicates call made, and
\* how far the call went: "missing" (line 130), "dry_run" (line 150),
\* "makedirs" (line 153 raised), "transfer" (lines 156-160 were executed)
Outcome(raised, error, source_path, dest_path, fs, faulted, candidate, exists, stage, fallback) ==
  [raised |-> raised, error |-> error, source |-> source_path,
   dest |-> dest_path, fs |-> fs, faulted |-> faulted,
   probe |-> [called |-> candidate # <<>>, filepath |-> candidate,
              exists |-> exists, result |-> dest_path],
   call |-> [stage |-> stage, fallback |-> fallback,
             warnings |-> OrganizeWarnings(fallback)]]

\* mutant of organize_file: the dry-run return is placed after the
\* directory creation
organize_file_LateDryRun(destination, hierarchy_pattern, source_path, metadata, new_filename, dry_run, move, fs, fault) ==
  IF source_path \notin fs.files
  THEN Outcome(TRUE, "FileNotFoundError", source_path, <<>>, fs, FALSE, <<>>, {}, "missing", FALSE)
  ELSE
    LET dest_dir  == determine_destination_path(destination, hierarchy_pattern, metadata)
        candidate == Join(dest_dir, new_filename)
        dest_path == handle_duplicates(candidate, Exists(fs))
        made      == ensure_directory_exists(dest_dir, fs, fault)
    IN  IF made.raised
        THEN Outcome(TRUE, "OSError", source_path, dest_path, made.fs,
                     made.faulted, candidate, Exists(fs), "makedirs", FALSE)
        ELSE IF dry_run
        THEN Outcome(FALSE, "none", source_path, dest_path, made.fs, FALSE,
                     candidate, Exists(fs), "dry_run", FALSE)
        ELSE
          LET moved == transfer(source_path, dest_path, move, made.fs, fault) IN
          Outcome(moved.raised, IF moved.raised THEN "OSError" ELSE "none",
                  source_path, dest_path, moved.fs, moved.faulted,
                  candidate, Exists(fs), "transfer", moved.fallback)

\* mutant of organize_file: the source is not checked first; the missing
\* source is only noticed by shutil, after the directories were made
organize_file_NoSourceCheck(destination, hierarchy_pattern, source_path, metadata, new_filename, dry_run, move, fs, fault) ==
  LET dest_dir  == determine_destination_path(destination, hierarchy_pattern, metadata)
      candidate == Join(dest_dir, new_filename)
      dest_path == handle_duplicates(candidate, Exists(fs))
  IN  IF dry_run
      THEN Outcome(FALSE, "none", source_path, dest_path, fs, FALSE,
                   candidate, Exists(fs), "dry_run", FALSE)
      ELSE
        LET made == ensure_directory_exists(dest_dir, fs, fault) IN
        IF made.raised
        THEN Outcome(TRUE, "OSError", source_path, dest_path, made.fs,
                     made.faulted, candidate, Exists(fs), "makedirs", FALSE)
        ELSE IF source_path \notin fs.files
        THEN Outcome(TRUE, "FileNotFoundError", source_path, dest_path, made.fs,
                     FALSE, candidate, Exists(fs), "transfer", FALSE)
        ELSE
          LET moved == transfer(source_path, dest_path, move, made.fs, fault) IN
          Outcome(moved.raised, IF moved.raised THEN "OSError" ELSE "none",
                  source_path, dest_path, moved.fs, moved.faulted,
                  candidate, Exists(fs), "transfer", moved.fallback)

\* mutant of organize_file: the file's own path does not count as taken
organize_file_SourceIsFree(destination, hierarchy_pattern, source_path, metadata, new_filename, dry_run, move, fs, fault) ==
  IF source_path \notin fs.files
  THEN Outcome(TRUE, "FileNotFoundError", source_path, <<>>, fs, FALSE, <<>>, {}, "missing", FALSE)
  ELSE
    LET dest_dir  == determine_destination_path(destination, hierarchy_pattern, metadata)
        candidate == Join(dest_dir, new_filename)
        engine    == NamingEngineInit(None)
        dest_path == handle_duplicates(candidate, Exists(fs) \ {source_path})
    IN  IF ~engine.ok
        THEN Outcome(TRUE, "ValueError", source_path, <<>>, fs, FALSE, <<>>, {}, "missing", FALSE)
        ELSE IF dry_run
        THEN Outcome(FALSE, "none", source_path, dest_path, fs, FALSE,
                     candidate, Exists(fs), "dry_run", FALSE)
        ELSE
          LET made == ensure_directory_exists(dest_dir, fs, fault) IN
          IF made.raised
          THEN Outcome(TRUE, "OSError", source_path, dest_path, made.fs,
                       made.faulted, candidate, Exists(fs), "makedirs", FALSE)
          ELSE
            LET moved == transfer(source_path, dest_path, move, made.fs, fault) IN
            Outcome(moved.raised, IF moved.raised THEN "OSError" ELSE "none",
                    source_path, dest_path, moved.fs, moved.faulted,
                    candidate, Exists(fs), "transfer", moved.fallback)

\* OrganizationEngine.organize_file
organize_file(destination, hierarchy_pattern, source_path, metadata, new_filename, dry_run, move, fs, fault) ==
  IF source_path \notin fs.files
  THEN Outcome(TRUE, "FileNotFoundError", source_path, <<>>, fs, FALSE, <<>>, {}, "missing", FALSE)
  ELSE
    LET dest_dir  == determine_destination_path(destination, hierarchy_pattern, metadata)
        candidate == Join(dest_dir, new_filename)
        engine    == NamingEngineInit(None)
        dest_path == handle_duplicates(candidate, Exists(fs))
    IN  IF ~engine.ok
        THEN Outcome(TRUE, "ValueError", source_path, <<>>, fs, FALSE, <<>>, {}, "missing", FALSE)
        ELSE IF dry_run
        THEN Outcome(FALSE, "none", source_path, dest_path, fs, FALSE,
                     candidate, Exists(fs), "dry_run", FALSE)
        ELSE
          LET made == ensure_directory_exists(dest_dir, fs, fault) IN
          IF made.raised
          THEN Outcome(TRUE, "OSError", source_path, dest_path, made.fs,
                       made.faulted, candidate, Exists(fs), "makedirs", FALSE)
          ELSE
            LET moved == transfer(source_path, dest_path, move, made.fs, fault) IN
            Outcome(moved.raised, IF moved.raised THEN "OSError" ELSE "none",
                    source_path, dest_path, moved.fs, moved.faulted,
                    candidate, Exists(fs), "transfer", moved.fallback)

\* ------------------------------------------------------------------------
\* test_exif.py: the simulation of the naming and of the folder path
\* ------------------------------------------------------------------------

\* the condition of test_exif.py line 181
SimulatedMissing(metadata, placeholder) ==
  \/ placeholder \notin DOMAIN metadata
  \/ Str(metadata[placeholder]) = <<>>

\* the loop of test_exif.py lines 180-189, from the k-th placeholder on
RECURSIVE SimulatedSubstitute(_, _, _, _)
SimulatedSubstitute(new_filename, placeholders, metadata, k) ==
  IF k > Len(placeholders) THEN new_filename
  ELSE LET placeholder == placeholders[k]
           value == IF SimulatedMissing(metadata, placeholder) THEN <<>>
                    ELSE Str(metadata[placeholder])
       IN  SimulatedSubstitute(Replace(new_filename, Braced(placeholder), value),
                               placeholders, metadata, k + 1)

\* test_exif.test_filename_generation
test_filename_generation(metadata, naming_pattern) ==
  LET placeholders == FindAll(naming_pattern)
      new_filename == SimulatedSubstitute(naming_pattern, placeholders, metadata, 1)
      clean_name   == Strip(CollapseUnderscores(ReplaceInvalid(new_filename)), "_")
  IN  IF EXTENSION \in DOMAIN metadata /\ Truthy(metadata[EXTENSION])
      THEN clean_name \o <<".">> \o Str(metadata[EXTENSION])
      ELSE clean_name

\* the inner loop of test_exif.py lines 154-162, from the k-th placeholder on
RECURSIVE SimulatedSegment(_, _, _, _)
SimulatedSegment(segment_value, placeholders, metadata, k) ==
  IF k > Len(placeholders) THEN segment_value
  ELSE LET placeholder == placeholders[k]
           value == IF placeholder \in DOMAIN metadata /\ Truthy(metadata[placeholder])
                    THEN Str(metadata[placeholder])
                    ELSE <<"u", "n", "k", "n", "o", "w", "n">>
       IN  SimulatedSegment(Replace(segment_value, Braced(placeholder), value),
                            placeholders, metadata, k + 1)

\* path_parts after the loop of test_exif.py lines 143-164, from the k-th
\* segment on
RECURSIVE SimulatedParts(_, _, _)
SimulatedParts(hierarchy_segments, metadata, k) ==
  IF k > Len(hierarchy_segments) THEN <<>>
  ELSE LET segment == hierarchy_segments[k] IN
       IF segment = <<>>
       THEN SimulatedParts(hierarchy_segments, metadata, k + 1)
       ELSE <<SimulatedSegment(segment, FindAll(segment), metadata, 1)>>
              \o SimulatedParts(hierarchy_segments, metadata, k + 1)

\* os.path.join(a, *parts)
RECURSIVE JoinAll(_, _)
JoinAll(a, parts) ==
  IF parts = <<>> THEN a ELSE JoinAll(Join(a, Head(parts)), Tail(parts))

\* "destination_root"
DESTINATION_ROOT ==
  <<"d", "e", "s", "t", "i", "n", "a", "t", "i", "o", "n", "_", "r", "o",
    "o", "t">>

\* "Root destination folder (flat organization)"
FLAT_MESSAGE ==
  <<"R", "o", "o", "t", " ", "d", "e", "s", "t", "i", "n", "a", "t", "i",
    "o", "n", " ", "f", "o", "l", "d", "e", "r", " ", "(", "f", "l", "a",
    "t", " ", "o", "r", "g", "a", "n", "i", "z", "a", "t", "i", "o", "n",
    ")">>

\* test_exif.simulate_folder_path: the string returned, and the path_parts
\* it was joined from (none when the message is returned)
simulate_folder_path(metadata, hierarchy_pattern) ==
  IF hierarchy_pattern = None \/ hierarchy_pattern = <<>>
  THEN [path |-> FLAT_MESSAGE, path_parts |-> <<>>]
  ELSE LET path_parts == SimulatedParts(Split(hierarchy_pattern), metadata, 1)
       IN  [path |-> JoinAll(DESTINATION_ROOT, path_parts), path_parts |-> path_parts]

\* ------------------------------------------------------------------------
\* State
\* ------------------------------------------------------------------------

VARIABLES
  driver,            \* "cli": CLI._execute; "api": OrganizationEngine.organize_files
  naming_pattern,    \* config "naming_pattern"
  folder_hierarchy,  \* config "folder_hierarchy"
  dry_run,           \* config "dry_run" / the dry_run argument
  move,              \* config "move" / the move argument
  all_metadata,      \* the scan result (files_metadata), one map per file
  destination,       \* OrganizationEngine.destination
  pc,                \* position in _execute
  naming_engine,     \* NamingEngine.pattern once constructed
  new_filenames,     \* the list built by step 2 of _execute
  hierarchy_pattern, \* OrganizationEngine.hierarchy_pattern once constructed
  idx,               \* 1-based index of the next file of the loop
  results,           \* the results list
  preview,           \* the destination paths printed by _preview_changes
  fs,                \* the filesystem
  fs0,               \* the filesystem when the run started
  probe,             \* the last handle_duplicates call
  faults,            \* number of faults injected so far
  t_arg,             \* SpecTemplate: the pattern argument
  t_state,           \* SpecTemplate: "new", "constructed", "validated"
  t_engine,          \* SpecTemplate: result of NamingEngine(pattern=t_arg)
  t_valid,           \* SpecTemplate: result of _validate_pattern(t_arg)
  n_pattern,         \* SpecName: the engine's (validated) pattern
  n_metadata,        \* SpecName: the attribute map
  n_state,           \* SpecName: "new", "done"
  n_result,          \* SpecName: result of generate_filename
  last_call,         \* what the last organize_file call did
  interrupted,       \* a KeyboardInterrupt was delivered to the run
  d_hierarchy,       \* SpecDirectory: the hierarchy argument
  d_metadata,        \* SpecDirectory: the attribute map
  d_state,           \* SpecDirectory: "new", "done"
  d_pattern,         \* SpecDirectory: OrganizationEngine.hierarchy_pattern
  d_segments,        \* SpecDirectory: the segment values joined to the base
  d_result,          \* SpecDirectory: result of determine_destination_path
  c_input,           \* SpecClean: the string to sanitize
  c_state,           \* SpecClean: "new", "once", "twice"
  c_once,            \* SpecClean: _clean_filename(c_input)
  c_twice,           \* SpecClean: _clean_filename(c_once)
  s_kind,            \* SpecSimulate: "name" or "folder"
  s_pattern,         \* SpecSimulate: the naming or hierarchy pattern
  s_metadata,        \* SpecSimulate: the attribute map
  s_state,           \* SpecSimulate: "new", "engine", "done"
  s_engine,          \* SpecSimulate: what the engine gives
  s_tool,            \* SpecSimulate: what src/test_exif.py gives
  g_flags,           \* SpecConfig: the options on the command line
  g_file,            \* SpecConfig: the YAML configuration file, or None
  g_state,           \* SpecConfig: "new", "parsed", "done"
  g_cli,             \* SpecConfig: result of Config.parse_command_line()
  g_config,          \* SpecConfig: result of Config(config_path, cli_args)
  r_move,            \* SpecRace: the move argument of both calls
  r_pc,              \* SpecRace: position of each organize_file call
  r_dest,            \* SpecRace: dest_path of each call
  r_owner,           \* SpecRace: the files, each with whose content it holds
  r_dirs,            \* SpecRace: the directories
  r_overwrote,       \* SpecRace: the content each call's move/copy replaced
  r_result,          \* SpecRace: how each call ended
  r_external         \* SpecRace: files written by another process so far

run_vars == <<driver, naming_pattern, folder_hierarchy, dry_run, move,
              all_metadata, destination, pc, naming_engine, new_filenames,
              hierarchy_pattern, idx, results, preview, fs, fs0, probe, faults,
              last_call, interrupted>>
template_vars == <<t_arg, t_state, t_engine, t_valid>>
name_vars == <<n_pattern, n_metadata, n_state, n_result>>
directory_vars == <<d_hierarchy, d_metadata, d_state, d_pattern, d_segments, d_result>>
clean_vars == <<c_input, c_state, c_once, c_twice>>
simulate_vars == <<s_kind, s_pattern, s_metadata, s_state, s_engine, s_tool>>
config_vars == <<g_flags, g_file, g_state, g_cli, g_config>>
race_vars == <<r_move, r_pc, r_dest, r_owner, r_dirs, r_overwrote, r_result,
               r_external>>
aux_vars == <<simulate_vars, config_vars, race_vars>>
race_frame == <<run_vars, template_vars, name_vars, directory_vars, clean_vars,
                simulate_vars, config_vars>>
simulate_frame == <<run_vars, template_vars, name_vars, directory_vars,
                    clean_vars, config_vars, race_vars>>
config_frame == <<run_vars, template_vars, name_vars, directory_vars,
                  clean_vars, simulate_vars, race_vars>>
pure_vars == <<template_vars, name_vars, directory_vars, clean_vars, aux_vars>>
vars == <<run_vars, pure_vars>>

\* ------------------------------------------------------------------------
\* Inputs of a run
\* ------------------------------------------------------------------------

ORIGINAL_FILENAME == <<"o", "r", "i", "g", "i", "n", "a", "l", "_", "f", "i", "l", "e", "n", "a", "m", "e">>
CAMERA == <<"c", "a", "m", "e", "r", "a">>
YEAR == <<"y", "e", "a", "r">>

EmptyMap == [k \in {} |-> StrV(<<>>)]

\* the directory of the k-th file of the source tree: /s, /s, /s/t, /s/t, ...
RECURSIVE SourceDir(_)
SourceDir(k) == IF k <= 2 THEN <<"/", "s">> ELSE SourceDir(k - 2) \o <<"/", "t">>

SourceStem(k) == IF k % 2 = 1 THEN <<"a">> ELSE <<"b">>

SourcePath(k) == Join(SourceDir(k), SourceStem(k) \o <<".", "j">>)

\* MetadataExtractor._process_metadata for the k-th file: the second file
\* carries no date
ScannedMetadata(k) ==
  (FILE_PATH :> StrV(SourcePath(k))) @@
  (ORIGINAL_FILENAME :> StrV(SourceStem(k))) @@
  (EXTENSION :> StrV(<<"j">>)) @@
  (CAMERA :> StrV(<<"k">>)) @@
  (IF k = 2 THEN EmptyMap ELSE (YEAR :> StrV(<<"1">>)))

\* scan results: the files found, in the order of the walk
RECURSIVE ScanResults(_)
ScanResults(k) ==
  IF k = 0 THEN {<<>>}
  ELSE ScanResults(k - 1) \cup {Append(b, ScannedMetadata(k)) : b \in ScanResults(k - 1)}

Batches == ScanResults(MaxFiles) \ {<<>>}

Sources(batch) == {Str(batch[k][FILE_PATH]) : k \in 1..Len(batch)}

P_ORIGINAL == Braced(ORIGINAL_FILENAME)
P_CAMERA == Braced(CAMERA)
P_YEAR == Braced(YEAR)
P_UNBALANCED == <<"{">> \o YEAR

NamingPatterns == {P_ORIGINAL, P_CAMERA, P_UNBALANCED}
Hierarchies == {None, YEAR, P_UNBALANCED}

DEST == <<"/", "d">>
DEST_A == Join(DEST, <<"a", ".", "j">>)
DEST_A1 == Join(DEST, <<"a", "_", "1", ".", "j">>)
DEST_A2 == Join(DEST, <<"a", "_", "2", ".", "j">>)

\* files already in the destination directory when the run starts
DestinationContents == SUBSET {DEST_A, DEST_A1}

\* no organize_file call was made yet
NoCall == [stage |-> "none", fallback |-> FALSE, warnings |-> {}]

NoProbe == [called |-> FALSE, filepath |-> <<>>, exists |-> {}, result |-> <<>>]

RunIdle ==
  /\ driver = "cli" /\ naming_pattern = None /\ folder_hierarchy = None
  /\ dry_run = FALSE /\ move = TRUE /\ all_metadata = <<>>
  /\ destination = DEST /\ pc = "idle" /\ naming_engine = None
  /\ new_filenames = <<>> /\ hierarchy_pattern = <<>> /\ idx = 1
  /\ results = <<>> /\ preview = <<>>
  /\ fs = [files |-> {}, dirs |-> {}] /\ fs0 = fs
  /\ probe = NoProbe /\ faults = 0
  /\ last_call = NoCall /\ interrupted = FALSE

NoEngine == [ok |-> FALSE, pattern |-> None, error |-> "none"]

TemplateIdle ==
  /\ t_arg = None /\ t_state = "idle" /\ t_engine = NoEngine /\ t_valid = "none"

NoResult == [raised |-> FALSE, name |-> <<>>, warnings |-> <<>>]

NameIdle ==
  /\ n_pattern = None /\ n_metadata = EmptyMap /\ n_state = "idle"
  /\ n_result = NoResult

DirectoryIdle ==
  /\ d_hierarchy = None /\ d_metadata = EmptyMap /\ d_state = "idle"
  /\ d_pattern = <<>> /\ d_segments = <<>> /\ d_result = <<>>

CleanIdle ==
  /\ c_input = <<>> /\ c_state = "idle" /\ c_once = <<>> /\ c_twice = <<>>

SimulateIdle ==
  /\ s_kind = "idle" /\ s_pattern = <<>> /\ s_metadata = EmptyMap
  /\ s_state = "idle" /\ s_engine = <<>> /\ s_tool = <<>>

ConfigIdle ==
  /\ g_flags = {} /\ g_file = None /\ g_state = "idle"
  /\ g_cli = EmptyMap /\ g_config = None

RaceIdle ==
  /\ r_move = FALSE /\ r_pc = <<>> /\ r_dest = <<>> /\ r_owner = EmptyMap
  /\ r_dirs = {} /\ r_overwrote = <<>> /\ r_result = <<>> /\ r_external = 0

AuxIdle == SimulateIdle /\ ConfigIdle /\ RaceIdle

\* A run starts after the scan.  A scanned file can have vanished since
\* (at most one does); the destination directory exists iff it has files.
Init ==
  /\ driver \in {"cli", "api"}
  /\ naming_pattern \in NamingPatterns
  /\ folder_hierarchy \in Hierarchies
  /\ dry_run \in BOOLEAN
  /\ move \in BOOLEAN
  /\ all_metadata \in Batches
  /\ destination = DEST
  /\ pc = "naming"
  /\ naming_engine = None
  /\ new_filenames = <<>>
  /\ hierarchy_pattern = <<>>
  /\ idx = 1
  /\ results = <<>>
  /\ preview = <<>>
  /\ \E vanished \in SUBSET Sources(all_metadata), contents \in DestinationContents :
       /\ Cardinality(vanished) <= 1
       /\ fs = [files |-> (Sources(all_metadata) \ vanished) \cup contents,
                dirs  |-> UNION {Ancestors(Dirname(f)) : f \in Sources(all_metadata)}
                          \cup (IF contents = {} THEN {} ELSE {DEST})]
  /\ fs0 = fs
  /\ probe = NoProbe
  /\ faults = 0
  /\ last_call = NoCall
  /\ interrupted = FALSE
  /\ TemplateIdle
  /\ NameIdle
  /\ DirectoryIdle
  /\ CleanIdle
  /\ AuxIdle

\* ------------------------------------------------------------------------
\* CLI._execute and OrganizationEngine.organize_files
\* ------------------------------------------------------------------------

PREVIEW_LIMIT == 10

Min(a, b) == IF a < b THEN a ELSE b

\* cli.py line 104: NamingEngine(pattern=...); a ValueError leaves _execute
\* through the handler of lines 147-150 (sys.exit(1))
ConstructNamingEngine ==
  /\ pc = "naming"
  /\ LET engine == NamingEngineInit(naming_pattern) IN
       IF engine.ok
       THEN /\ naming_engine' = engine.pattern
            /\ pc' = "filenames"
       ELSE /\ naming_engine' = naming_engine
            /\ pc' = "error"
  /\ UNCHANGED <<driver, naming_pattern, folder_hierarchy, dry_run, move,
                 all_metadata, destination, new_filenames, hierarchy_pattern,
                 idx, results, preview, fs, fs0, probe, faults,
                 last_call, interrupted>>
  /\ UNCHANGED pure_vars

\* cli.py lines 105-109
GenerateFilenames ==
  /\ pc = "filenames"
  /\ new_filenames' =
       [k \in 1..Len(all_metadata) |->
          generate_filename(naming_engine, all_metadata[k]).name]
  /\ pc' = "organization"
  /\ UNCHANGED <<driver, naming_pattern, folder_hierarchy, dry_run, move,
                 all_metadata, destination, naming_engine, hierarchy_pattern,
                 idx, results, preview, fs, fs0, probe, faults,
                 last_call, interrupted>>
  /\ UNCHANGED pure_vars

\* cli.py lines 113-121: OrganizationEngine(...), then the dry-run branch.
\* organize_files is entered with its own dry_run argument.
ConstructOrganizationEngine ==
  /\ pc = "organization"
  /\ hierarchy_pattern' = OrganizationEngineInit(folder_hierarchy)
  /\ pc' = IF driver = "cli" /\ dry_run THEN "preview" ELSE "organize"
  /\ UNCHANGED <<driver, naming_pattern, folder_hierarchy, dry_run, move,
                 all_metadata, destination, naming_engine, new_filenames,
                 idx, results, preview, fs, fs0, probe, faults,
                 last_call, interrupted>>
  /\ UNCHANGED pure_vars

\* CLI._preview_changes
PreviewChanges ==
  /\ pc = "preview"
  /\ preview' =
       [k \in 1..Min(PREVIEW_LIMIT, Len(all_metadata)) |->
          Join(determine_destination_path(destination, hierarchy_pattern,
                                          all_metadata[k]),
               new_filenames[k])]
  /\ pc' = "done"
  /\ UNCHANGED <<driver, naming_pattern, folder_hierarchy, dry_run, move,
                 all_metadata, destination, naming_engine, new_filenames,
                 hierarchy_pattern, idx, results, fs, fs0, probe, faults,
                 last_call, interrupted>>
  /\ UNCHANGED pure_vars

\* the entry appended to results: (source_path, dest_path) on success,
\* (source_path, str(e)) when the file's exception is caught
ResultEntry(r) ==
  [source |-> r.source, ok |-> ~r.raised,
   dest |-> IF r.raised THEN <<>> ELSE r.dest, error |-> r.error]

\* mutant of LoopContinues: the exception of a file leaves the loop
LoopContinues_Abort(raised, k, n) ==
  IF raised THEN "error" ELSE IF k < n THEN "organize" ELSE "done"

\* the try/except of cli.py lines 130-142 and organization.py lines 189-194
\* catches every Exception of a file: the loop goes on to the next file
LoopContinues(raised, k, n) == IF k < n THEN "organize" ELSE "done"

\* one iteration of the loop of cli.py lines 127-142 (dry_run=False) or of
\* organization.py lines 187-194 (the caller's dry_run)
OrganizeStep ==
  /\ pc = "organize"
  /\ idx <= Len(all_metadata)
  /\ \E fault \in Faults :
       LET metadata == all_metadata[idx]
           r == organize_file(destination, hierarchy_pattern,
                              Str(metadata[FILE_PATH]), metadata,
                              new_filenames[idx],
                              IF driver = "api" THEN dry_run ELSE FALSE,
                              move, fs, fault)
       IN  /\ fault # "none" => faults < MaxFaults /\ r.faulted
           /\ faults' = IF r.faulted THEN faults + 1 ELSE faults
           /\ results' = Append(results, ResultEntry(r))
           /\ fs' = r.fs
           /\ probe' = r.probe
           /\ last_call' = r.call
           /\ pc' = LoopContinues(r.raised, idx, Len(all_metadata))
  /\ idx' = idx + 1
  /\ UNCHANGED <<driver, naming_pattern, folder_hierarchy, dry_run, move,
                 all_metadata, destination, naming_engine, new_filenames,
                 hierarchy_pattern, preview, fs0, interrupted>>
  /\ UNCHANGED pure_vars

\* where a KeyboardInterrupt can reach the loop: between two files, or
\* inside organize_file after os.makedirs (line 153), in the middle of the
\* copy of shutil.move / shutil.copy2 (lines 156-160), or after them before
\* the result is recorded
InterruptPoints == {"between", "directories", "copying", "applied"}

\* the filesystem a call of organize_file leaves when it is cut at point
InterruptedCall(point, destination_, hierarchy_pattern_, source_path, metadata, new_filename, dry_run_, move_, fs_) ==
  LET cut == CASE point = "directories" -> "transfer"
               [] point = "copying"     -> "partial"
               [] OTHER                 -> "none"
  IN  IF point = "between" THEN fs_
      ELSE organize_file(destination_, hierarchy_pattern_, source_path,
                         metadata, new_filename, dry_run_, move_, fs_, cut).fs

\* mutant of InterruptHandler: the interrupt is swallowed like an Exception
\* of the file and the loop goes on
InterruptHandler_Swallowed(position) == position

\* KeyboardInterrupt is not an Exception: the handlers of organization.py
\* lines 161 and 192 and of cli.py lines 140 and 147 let it through, and
\* main.py lines 24-26 print "Operation canceled by user." and sys.exit(1)
InterruptHandler(position) == "canceled"

\* the user interrupts the run while the loop of cli.py lines 127-142 or of
\* organization.py lines 187-194 is at file idx
KeyboardInterrupt ==
  /\ pc = "organize"
  /\ idx <= Len(all_metadata)
  /\ ~interrupted
  /\ \E point \in InterruptPoints :
       fs' = InterruptedCall(point, destination, hierarchy_pattern,
                             Str(all_metadata[idx][FILE_PATH]),
                             all_metadata[idx], new_filenames[idx],
                             IF driver = "api" THEN dry_run ELSE FALSE,
                             move, fs)
  /\ interrupted' = TRUE
  /\ pc' = InterruptHandler(pc)
  /\ UNCHANGED <<driver, naming_pattern, folder_hierarchy, dry_run, move,
                 all_metadata, destination, naming_engine, new_filenames,
                 hierarchy_pattern, idx, results, preview, fs0, probe,
                 faults, last_call>>
  /\ UNCHANGED pure_vars

Next ==
  \/ ConstructNamingEngine
  \/ GenerateFilenames
  \/ ConstructOrganizationEngine
  \/ PreviewChanges
  \/ OrganizeStep
  \/ KeyboardInterrupt

Spec == Init /\ [][Next]_vars

\* ------------------------------------------------------------------------
\* SpecRerun: the run of Spec on a directory that is its own destination.
\* Config._validate_config sets destination to source when no destination
\* is given (config.py lines 112-116), so the scanned files lie in the
\* directory they are organized into.
\* ------------------------------------------------------------------------

SOURCE == SourceDir(1)

InitRerun ==
  /\ driver \in {"cli", "api"}
  /\ naming_pattern \in NamingPatterns
  /\ folder_hierarchy \in {None, FLAT, YEAR}
  /\ dry_run \in BOOLEAN
  /\ move \in BOOLEAN
  /\ all_metadata \in Batches
  /\ destination = SOURCE
  /\ pc = "naming"
  /\ naming_engine = None
  /\ new_filenames = <<>>
  /\ hierarchy_pattern = <<>>
  /\ idx = 1
  /\ results = <<>>
  /\ preview = <<>>
  /\ fs = [files |-> Sources(all_metadata),
           dirs  |-> UNION {Ancestors(Dirname(f)) : f \in Sources(all_metadata)}]
  /\ fs0 = fs
  /\ probe = NoProbe
  /\ faults = 0
  /\ last_call = NoCall
  /\ interrupted = FALSE
  /\ TemplateIdle
  /\ NameIdle
  /\ DirectoryIdle
  /\ CleanIdle
  /\ AuxIdle

SpecRerun == InitRerun /\ [][Next]_vars

\* ------------------------------------------------------------------------
\* SpecTemplate: NamingEngine(pattern=p) and _validate_pattern(p) for every
\* pattern of at most MaxPatLen characters and the patterns of the
\* documentation
\* ------------------------------------------------------------------------

\* all strings over alphabet of length at most n
RECURSIVE StringsUpTo(_, _)
StringsUpTo(alphabet, n) ==
  IF n = 0 THEN {<<>>}
  ELSE LET shorter == StringsUpTo(alphabet, n - 1) IN
       shorter \cup {Append(t, c) : t \in shorter, c \in alphabet}

PatternAlphabet == {"a", "-", "{", "}"}

EX_NESTED == <<"{", "a", "{", "b", "}", "}">>
EX_EMPTY_NAME == <<"{", "}">>
EX_ADJACENT == <<"{", "a", "}", "{", "b", "}">>
EX_UNDERSCORE == <<"{", "a", "}", "_", "{", "b", "}">>

TemplatePatterns ==
  StringsUpTo(PatternAlphabet, MaxPatLen)
    \cup {EX_NESTED, EX_EMPTY_NAME, EX_ADJACENT, EX_UNDERSCORE, FLAT}

InitTemplate ==
  /\ t_arg \in TemplatePatterns \cup {None}
  /\ t_state = "new"
  /\ t_engine = NoEngine
  /\ t_valid = "none"
  /\ RunIdle
  /\ NameIdle
  /\ DirectoryIdle
  /\ CleanIdle
  /\ AuxIdle

\* NamingEngine(pattern=t_arg)
TConstruct ==
  /\ t_state = "new"
  /\ t_engine' = NamingEngineInit(t_arg)
  /\ t_state' = "constructed"
  /\ UNCHANGED <<t_arg, t_valid, run_vars, name_vars, directory_vars, clean_vars, aux_vars>>

\* _validate_pattern(t_arg) on a string
TValidate ==
  /\ t_state = "new"
  /\ t_arg # None
  /\ t_valid' = validate_pattern(t_arg)
  /\ t_state' = "validated"
  /\ UNCHANGED <<t_arg, t_engine, run_vars, name_vars, directory_vars, clean_vars, aux_vars>>

NextTemplate == TConstruct \/ TValidate

SpecTemplate == InitTemplate /\ [][NextTemplate]_vars

\* ------------------------------------------------------------------------
\* SpecName: generate_filename for every validated pattern of NamePatterns
\* and every attribute map of NameMetadata
\* ------------------------------------------------------------------------

KEY_A == <<"a">>
KEY_B == <<"b">>

DATE == <<"d", "a", "t", "e">>

\* {date}_{camera}_{original_filename}
P_DATE_CAMERA_ORIGINAL ==
  Braced(DATE) \o <<"_">> \o Braced(CAMERA) \o <<"_">> \o Braced(ORIGINAL_FILENAME)

\* date 2023-05-01, camera Canon_EOS, original_filename IMG_001,
\* extension jpg
PhotoMetadata ==
  (DATE :> StrV(<<"2", "0", "2", "3", "-", "0", "5", "-", "0", "1">>)) @@
  (CAMERA :> StrV(<<"C", "a", "n", "o", "n", "_", "E", "O", "S">>)) @@
  (ORIGINAL_FILENAME :> StrV(<<"I", "M", "G", "_", "0", "0", "1">>)) @@
  (EXTENSION :> StrV(<<"j", "p", "g">>))

\* {a}, {a}_{b}, {a}{b}, {b}{a}, x{a}, {a}:{b}, _, x,
\* {date}_{camera}_{original_filename}
NamePatterns ==
  {p \in {P_DATE_CAMERA_ORIGINAL,
          Braced(KEY_A),
          Braced(KEY_A) \o <<"_">> \o Braced(KEY_B),
          Braced(KEY_A) \o Braced(KEY_B),
          Braced(KEY_B) \o Braced(KEY_A),
          <<"x">> \o Braced(KEY_A),
          Braced(KEY_A) \o <<":">> \o Braced(KEY_B),
          <<"_">>,
          <<"x">>} : validate_pattern(p) = "ok"}

ValueAlphabet == {"x", "/", "_"}

\* values of attribute a: strings, a value shaped like a placeholder, and
\* the integer 0
ValuesA ==
  {StrV(v) : v \in StringsUpTo(ValueAlphabet, MaxValLen)}
    \cup {StrV(Braced(KEY_B)), IntV(0)}
ValuesB == {StrV(<<>>), StrV(<<"y">>)}
ValuesExtension == {StrV(<<>>), StrV(<<"j">>), StrV(<<"j", "/", "g">>)}

\* the maps with any of the keys a, b, extension
MapsOver(key, values) == {EmptyMap} \cup {key :> v : v \in values}

NameMetadata ==
  {ma @@ mb @@ me : ma \in MapsOver(KEY_A, ValuesA),
                    mb \in MapsOver(KEY_B, ValuesB),
                    me \in MapsOver(EXTENSION, ValuesExtension)}
    \cup {PhotoMetadata,
          [key \in DOMAIN PhotoMetadata \ {EXTENSION} |-> PhotoMetadata[key]]}

InitName ==
  /\ n_pattern \in NamePatterns
  /\ n_metadata \in NameMetadata
  /\ n_state = "new"
  /\ n_result = NoResult
  /\ RunIdle
  /\ TemplateIdle
  /\ DirectoryIdle
  /\ CleanIdle
  /\ AuxIdle

\* naming_engine.generate_filename(n_metadata)
NGenerate ==
  /\ n_state = "new"
  /\ n_result' = generate_filename(n_pattern, n_metadata)
  /\ n_state' = "done"
  /\ UNCHANGED <<n_pattern, n_metadata, run_vars, template_vars, directory_vars, clean_vars, aux_vars>>

NextName == NGenerate

SpecName == InitName /\ [][NextName]_vars

\* ------------------------------------------------------------------------
\* SpecDirectory: OrganizationEngine(DEST, d_hierarchy) and
\* determine_destination_path(d_metadata) for every hierarchy of
\* DirectoryHierarchies and every attribute map of DirectoryMetadata
\* ------------------------------------------------------------------------

MONTH == <<"m", "o", "n", "t", "h">>
YEAR_MONTH == YEAR \o <<"_">> \o MONTH

\* None, "", "flat", the preset year_month, {year}/{month},
\* /{year}//{month}/, {year}-{month}, x/{year}, {year}{month}, /
DirectoryHierarchies ==
  {None, <<>>, FLAT, YEAR_MONTH,
   Braced(YEAR) \o <<"/">> \o Braced(MONTH),
   <<"/">> \o Braced(YEAR) \o <<"/", "/">> \o Braced(MONTH) \o <<"/">>,
   Braced(YEAR) \o <<"-">> \o Braced(MONTH),
   <<"x", "/">> \o Braced(YEAR),
   Braced(YEAR) \o Braced(MONTH),
   <<"/">>}

Y2023 == <<"2", "0", "2", "3">>
M05 == <<"0", "5">>

ValuesYear ==
  {StrV(v) : v \in StringsUpTo({"x", "/"}, MaxValLen)}
    \cup {StrV(Y2023), StrV(Braced(MONTH)), IntV(0), IntV(7)}
ValuesMonth == {StrV(<<>>), StrV(M05), StrV(<<"y">>), IntV(0)}

DirectoryMetadata ==
  {my @@ mm : my \in MapsOver(YEAR, ValuesYear),
              mm \in MapsOver(MONTH, ValuesMonth)}

InitDirectory ==
  /\ d_hierarchy \in DirectoryHierarchies
  /\ d_metadata \in DirectoryMetadata
  /\ d_state = "new"
  /\ d_pattern = <<>>
  /\ d_segments = <<>>
  /\ d_result = <<>>
  /\ RunIdle
  /\ TemplateIdle
  /\ NameIdle
  /\ CleanIdle
  /\ AuxIdle

\* OrganizationEngine(DEST, d_hierarchy)
DConstruct ==
  /\ d_state = "new"
  /\ d_pattern' = OrganizationEngineInit(d_hierarchy)
  /\ d_state' = "constructed"
  /\ UNCHANGED <<d_hierarchy, d_metadata, d_segments, d_result,
                 run_vars, template_vars, name_vars, clean_vars,
                 aux_vars>>

\* engine.determine_destination_path(d_metadata)
DResolve ==
  /\ d_state = "constructed"
  /\ d_segments' = IF d_pattern = <<>> THEN <<>>
                   ELSE AppendedSegments(Split(d_pattern), d_metadata, 1)
  /\ d_result' = determine_destination_path(DEST, d_pattern, d_metadata)
  /\ d_state' = "done"
  /\ UNCHANGED <<d_hierarchy, d_metadata, d_pattern,
                 run_vars, template_vars, name_vars, clean_vars,
                 aux_vars>>

NextDirectory == DConstruct \/ DResolve

SpecDirectory == InitDirectory /\ [][NextDirectory]_vars

\* ------------------------------------------------------------------------
\* SpecClean: _clean_filename(c_input), and _clean_filename of its result,
\* for every string of CleanInputs
\* ------------------------------------------------------------------------

CleanAlphabet == {"x", "_", "/", "*"}

\* every character of invalid_chars (line 108) once, between letters
ALL_INVALID ==
  <<"<", "a", ">", "b", ":", "c", "\"", "d", "/", "e", "\\", "f", "|", "g",
    "?", "h", "*">>

CleanInputs ==
  StringsUpTo(CleanAlphabet, MaxCleanLen) \cup {ALL_INVALID, UNNAMED_FILE}

InitClean ==
  /\ c_input \in CleanInputs
  /\ c_state = "new"
  /\ c_once = <<>>
  /\ c_twice = <<>>
  /\ RunIdle
  /\ TemplateIdle
  /\ NameIdle
  /\ DirectoryIdle
  /\ AuxIdle

\* self._clean_filename(c_input)
CleanOnce ==
  /\ c_state = "new"
  /\ c_once' = clean_filename(c_input)
  /\ c_state' = "once"
  /\ UNCHANGED <<c_input, c_twice, run_vars, template_vars, name_vars,
                 directory_vars, aux_vars>>

\* self._clean_filename(c_once)
CleanTwice ==
  /\ c_state = "once"
  /\ c_twice' = clean_filename(c_once)
  /\ c_state' = "twice"
  /\ UNCHANGED <<c_input, c_once, run_vars, template_vars, name_vars,
                 directory_vars, aux_vars>>

NextClean == CleanOnce \/ CleanTwice

SpecClean == InitClean /\ [][NextClean]_vars

\* ------------------------------------------------------------------------
\* SpecRace: two organize_file calls (dry_run=False) on two files with the
\* same candidate path run side by side, e.g. two runs of the tool on one
\* destination, while another process may write into the destination.
\* organize_file is cut where it calls the operating system: os.path.isfile
\* (line 128), handle_duplicates (lines 133-140), os.makedirs (line 153),
\* shutil.move / shutil.copy2 (lines 156-160).
\* ------------------------------------------------------------------------

\* number of files another process writes into the destination
MaxExternal == 1

Workers == {1, 2}

\* /s/a.j and /s/t/a.j: both are named a.j by {original_filename}
RaceMetadata(w) == ScannedMetadata(2 * w - 1)
RaceSource(w) == Str(RaceMetadata(w)[FILE_PATH])
RaceFilename(w) == generate_filename(P_ORIGINAL, RaceMetadata(w)).name

\* the content of the source of call w
RaceContent(w) == IF w = 1 THEN "f1" ELSE "f2"

RaceFs == [files |-> DOMAIN r_owner, dirs |-> r_dirs]

InitRace ==
  /\ r_move \in BOOLEAN
  /\ r_pc = [w \in Workers |-> "check"]
  /\ r_dest = [w \in Workers |-> <<>>]
  /\ \E contents \in DestinationContents :
       /\ r_owner = [path \in {RaceSource(w) : w \in Workers} \cup contents |->
                       IF path \in contents THEN "old"
                       ELSE RaceContent(CHOOSE w \in Workers : RaceSource(w) = path)]
       /\ r_dirs = UNION {Ancestors(Dirname(RaceSource(w))) : w \in Workers}
                     \cup (IF contents = {} THEN {} ELSE {DEST})
  /\ r_overwrote = [w \in Workers |-> "none"]
  /\ r_result = [w \in Workers |-> "none"]
  /\ r_external = 0
  /\ RunIdle
  /\ TemplateIdle
  /\ NameIdle
  /\ DirectoryIdle
  /\ CleanIdle
  /\ SimulateIdle
  /\ ConfigIdle

\* lines 128-130: os.path.isfile(source_path)
RCheck(w) ==
  /\ r_pc[w] = "check"
  /\ IF RaceSource(w) \in DOMAIN r_owner
     THEN /\ r_pc' = [r_pc EXCEPT ![w] = "probe"]
          /\ UNCHANGED r_result
     ELSE /\ r_pc' = [r_pc EXCEPT ![w] = "done"]
          /\ r_result' = [r_result EXCEPT ![w] = "FileNotFoundError"]
  /\ UNCHANGED <<r_move, r_dest, r_owner, r_dirs, r_overwrote, r_external>>
  /\ UNCHANGED race_frame

\* lines 133-140: destination directory, candidate, handle_duplicates
RProbe(w) ==
  /\ r_pc[w] = "probe"
  /\ LET dest_dir == determine_destination_path(DEST, <<>>, RaceMetadata(w))
         candidate == Join(dest_dir, RaceFilename(w))
     IN  r_dest' = [r_dest EXCEPT ![w] = handle_duplicates(candidate, Exists(RaceFs))]
  /\ r_pc' = [r_pc EXCEPT ![w] = "makedirs"]
  /\ UNCHANGED <<r_move, r_owner, r_dirs, r_overwrote, r_result, r_external>>
  /\ UNCHANGED race_frame

\* line 153: self._ensure_directory_exists(dest_dir)
RMakedirs(w) ==
  /\ r_pc[w] = "makedirs"
  /\ LET made == ensure_directory_exists(Dirname(r_dest[w]), RaceFs, "none") IN
     IF made.raised
     THEN /\ r_pc' = [r_pc EXCEPT ![w] = "done"]
          /\ r_result' = [r_result EXCEPT ![w] = "OSError"]
          /\ UNCHANGED r_dirs
     ELSE /\ r_pc' = [r_pc EXCEPT ![w] = "transfer"]
          /\ r_dirs' = made.fs.dirs
          /\ UNCHANGED r_result
  /\ UNCHANGED <<r_move, r_dest, r_owner, r_overwrote, r_external>>
  /\ UNCHANGED race_frame

\* lines 156-160: shutil.move / shutil.copy2 onto dest_path; what is at
\* dest_path by now is replaced
RTransfer(w) ==
  /\ r_pc[w] = "transfer"
  /\ LET moved == transfer(RaceSource(w), r_dest[w], r_move, RaceFs, "none") IN
     /\ r_owner' = [path \in moved.fs.files |->
                      IF path = r_dest[w] /\ ~moved.raised
                      THEN r_owner[RaceSource(w)]
                      ELSE r_owner[path]]
     /\ r_overwrote' = [r_overwrote EXCEPT ![w] =
                          IF ~moved.raised /\ r_dest[w] \in DOMAIN r_owner
                          THEN r_owner[r_dest[w]] ELSE "none"]
     /\ r_result' = [r_result EXCEPT ![w] =
                       IF moved.raised THEN "OSError" ELSE "ok"]
  /\ r_pc' = [r_pc EXCEPT ![w] = "done"]
  /\ UNCHANGED <<r_move, r_dest, r_dirs, r_external>>
  /\ UNCHANGED race_frame

\* another process creates a file in the destination directory
RExternal ==
  /\ r_external < MaxExternal
  /\ \E path \in {DEST_A, DEST_A1, DEST_A2} :
       /\ path \notin DOMAIN r_owner
       /\ r_owner' = [p \in DOMAIN r_owner \cup {path} |->
                        IF p = path THEN "ext" ELSE r_owner[p]]
  /\ r_dirs' = r_dirs \cup {DEST}
  /\ r_external' = r_external + 1
  /\ UNCHANGED <<r_move, r_pc, r_dest, r_overwrote, r_result>>
  /\ UNCHANGED race_frame

NextRace ==
  \/ \E w \in Workers : RCheck(w)
  \/ \E w \in Workers : RProbe(w)
  \/ \E w \in Workers : RMakedirs(w)
  \/ \E w \in Workers : RTransfer(w)
  \/ RExternal

SpecRace == InitRace /\ [][NextRace]_vars

\* ------------------------------------------------------------------------
\* SpecConfig: Config.parse_command_line() and Config(config_path, cli_args)
\* for every command line of ConfigFlags and every file of ConfigFiles.
\* Python values are written as strings: "True", "False", "None", and the
\* strings themselves.
\* ------------------------------------------------------------------------

\* dict.update
Update(d, e) ==
  [key \in DOMAIN d \cup DOMAIN e |-> IF key \in DOMAIN e THEN e[key] ELSE d[key]]

\* Config.DEFAULT_CONFIG
DEFAULT_CONFIG ==
  [source |-> "", destination |-> "",
   naming_pattern |-> "{datetime}_{original_filename}",
   folder_hierarchy |-> "flat", file_types |-> "[jpg, ...]",
   move |-> "True", backup |-> "False", recursive |-> "True",
   dry_run |-> "False"]

\* the options of the parser, lines 171-185
AllFlags ==
  {"--source", "--dest", "--pattern", "--hierarchy", "--move", "--copy",
   "--backup", "--dry-run", "--recursive", "--no-recursive"}

ConfigFlags == SUBSET AllFlags

\* a value option: the string given, or argparse's default None
ValueOption(flags, flag, value) == IF flag \in flags THEN value ELSE "None"

\* action="store_true": True when given, else the default False
StoreTrue(flags, flag) == IF flag \in flags THEN "True" ELSE "False"

\* --recursive (store_true) and --no-recursive (store_false) share
\* dest="recursive"; without either the default of the action added first
\* (False) is used, with both the one given later wins
RecursiveValues(flags) ==
  IF "--recursive" \in flags /\ "--no-recursive" \in flags THEN {"True", "False"}
  ELSE IF "--recursive" \in flags THEN {"True"}
  ELSE {"False"}

\* vars(parser.parse_args()), line 190
ParsedArgs(flags, config_path, recursive) ==
  [config |-> config_path,
   source |-> ValueOption(flags, "--source", "/s"),
   destination |-> ValueOption(flags, "--dest", "/d"),
   naming_pattern |-> ValueOption(flags, "--pattern", "{date}"),
   folder_hierarchy |-> ValueOption(flags, "--hierarchy", "year"),
   move |-> StoreTrue(flags, "--move"),
   copy |-> StoreTrue(flags, "--copy"),
   backup |-> StoreTrue(flags, "--backup"),
   dry_run |-> StoreTrue(flags, "--dry-run"),
   recursive |-> recursive]

\* Config.parse_command_line, lines 192-197
parse_command_line(flags, config_path, recursive) ==
  LET cli_args == ParsedArgs(flags, config_path, recursive) IN
  IF cli_args.copy = "True"
  THEN [key \in DOMAIN cli_args \ {"copy"} |->
          IF key = "move" THEN "False" ELSE cli_args[key]]
  ELSE cli_args

\* Config._apply_cli_args
apply_cli_args(config, cli_args) ==
  Update(config, [key \in {k \in DOMAIN cli_args : cli_args[k] # "None"} |->
                    cli_args[key]])

\* os.path.isdir
ConfigDirectories == {"/s", "/d"}

\* Config._validate_config
validate_config(config) ==
  IF config.source = "" \/ config.source \notin ConfigDirectories
  THEN [raised |-> "ValueError", config |-> config]
  ELSE [raised |-> "none",
        config |-> IF config.destination = ""
                   THEN [config EXCEPT !.destination = config.source]
                   ELSE config]

\* Config.__init__(config_path, cli_args); file.settings is the dictionary
\* of the YAML file when config_path is given
ConfigInit(file, cli_args) ==
  LET loaded == IF file.given THEN Update(DEFAULT_CONFIG, file.settings)
                ELSE DEFAULT_CONFIG
  IN  validate_config(apply_cli_args(loaded, cli_args))

\* no --config option
NoConfigFile == [given |-> FALSE, settings |-> [source |-> ""]]

ConfigFile(settings) == [given |-> TRUE, settings |-> settings]

\* configuration files: one setting each, and one with several
ConfigFiles ==
  {NoConfigFile} \cup
  {ConfigFile(settings) : settings \in
     {[source |-> "/s"], [destination |-> "/d"], [naming_pattern |-> "{year}"],
      [move |-> "True"], [move |-> "False"], [dry_run |-> "True"],
      [backup |-> "True"], [recursive |-> "True"], [recursive |-> "False"],
      [source |-> "/s", move |-> "True", dry_run |-> "True", backup |-> "True",
       recursive |-> "True"]}}

InitConfig ==
  /\ g_flags \in ConfigFlags
  /\ g_file \in ConfigFiles
  /\ g_state = "new"
  /\ g_cli = EmptyMap
  /\ g_config = None
  /\ RunIdle
  /\ TemplateIdle
  /\ NameIdle
  /\ DirectoryIdle
  /\ CleanIdle
  /\ SimulateIdle
  /\ RaceIdle

\* cli.py line 220: cli_args = Config.parse_command_line()
ParseCommandLine ==
  /\ g_state = "new"
  /\ \E recursive \in RecursiveValues(g_flags) :
       g_cli' = parse_command_line(g_flags,
                                   IF g_file.given THEN "config.yaml" ELSE "None",
                                   recursive)
  /\ g_state' = "parsed"
  /\ UNCHANGED <<g_flags, g_file, g_config>>
  /\ UNCHANGED config_frame

\* cli.py line 223: Config(config_path=cli_args.get("config"), cli_args=cli_args)
LoadConfiguration ==
  /\ g_state = "parsed"
  /\ g_config' = ConfigInit(g_file, g_cli)
  /\ g_state' = "done"
  /\ UNCHANGED <<g_flags, g_file, g_cli>>
  /\ UNCHANGED config_frame

NextConfig == ParseCommandLine \/ LoadConfiguration

SpecConfig == InitConfig /\ [][NextConfig]_vars

\* ------------------------------------------------------------------------
\* SpecSimulate: the simulation tool test_exif.py next to the engine, on
\* the naming patterns and attribute maps of SpecName and the hierarchies
\* and attribute maps of SpecDirectory
\* ------------------------------------------------------------------------

\* what the engine raised instead of a name
VALUE_ERROR == <<"ValueError">>

InitSimulate ==
  /\ \/ /\ s_kind = "name"
        /\ s_pattern \in NamePatterns
        /\ s_metadata \in NameMetadata
     \/ /\ s_kind = "folder"
        /\ s_pattern \in DirectoryHierarchies
        /\ s_metadata \in DirectoryMetadata
  /\ s_state = "new"
  /\ s_engine = <<>>
  /\ s_tool = <<>>
  /\ RunIdle
  /\ TemplateIdle
  /\ NameIdle
  /\ DirectoryIdle
  /\ CleanIdle
  /\ ConfigIdle
  /\ RaceIdle

\* NamingEngine(s_pattern).generate_filename(s_metadata), or
\* OrganizationEngine(base, s_pattern).determine_destination_path(s_metadata)
\* seen as the segments joined below base
SimulateEngine ==
  /\ s_state = "new"
  /\ s_engine' =
       IF s_kind = "name"
       THEN LET engine == NamingEngineInit(s_pattern) IN
            IF engine.ok THEN generate_filename(engine.pattern, s_metadata).name
            ELSE VALUE_ERROR
       ELSE LET hierarchy_pattern_ == OrganizationEngineInit(s_pattern) IN
            IF hierarchy_pattern_ = <<>> THEN <<>>
            ELSE AppendedSegments(Split(hierarchy_pattern_), s_metadata, 1)
  /\ s_state' = "engine"
  /\ UNCHANGED <<s_kind, s_pattern, s_metadata, s_tool>>
  /\ UNCHANGED simulate_frame

\* test_filename_generation(s_metadata, s_pattern), or
\* simulate_folder_path(s_metadata, s_pattern) seen as its path_parts
SimulateTool ==
  /\ s_state = "engine"
  /\ s_tool' =
       IF s_kind = "name" THEN test_filename_generation(s_metadata, s_pattern)
       ELSE simulate_folder_path(s_metadata, s_pattern).path_parts
  /\ s_state' = "done"
  /\ UNCHANGED <<s_kind, s_pattern, s_metadata, s_engine>>
  /\ UNCHANGED simulate_frame

NextSimulate == SimulateEngine \/ SimulateTool

SpecSimulate == InitSimulate /\ [][NextSimulate]_vars

\* ------------------------------------------------------------------------
\* Properties
\* ------------------------------------------------------------------------

Range(f) == {f[k] : k \in DOMAIN f}

\* C1: every handle_duplicates call returns its argument when that path
\* does not exist, and otherwise dir/stem_k.ext for the smallest k >= 1
\* whose path does not exist; the returned path never exists at the moment
\* of the check; with a.j and a_1.j present the answer for a.j is a_2.j.
C1_CollisionResolution ==
  probe.called =>
    /\ probe.result \notin probe.exists
    /\ probe.filepath \notin probe.exists => probe.result = probe.filepath
    /\ probe.filepath \in probe.exists =>
         \E k \in 1..(Cardinality(probe.exists) + 1) :
           /\ probe.result = Numbered(probe.filepath, k)
           /\ \A j \in 1..(k - 1) : Numbered(probe.filepath, j) \in probe.exists
    /\ (/\ probe.filepath = DEST_A
        /\ {DEST_A, DEST_A1} \subseteq probe.exists
        /\ DEST_A2 \notin probe.exists) => probe.result = DEST_A2

C1_Witness ==
  /\ probe.called
  /\ probe.filepath = DEST_A
  /\ {DEST_A, DEST_A1} \subseteq probe.exists
  /\ probe.result = DEST_A2

\* C2: within one batch the destination paths of the files that were
\* planned successfully are pairwise distinct, in dry-run mode as well as
\* in move or copy mode.
C2_DistinctDestinations ==
  \A i \in DOMAIN results, j \in DOMAIN results :
    (i # j /\ results[i].ok /\ results[j].ok)
      => results[i].dest # results[j].dest

\* C3: a failing file does not abort the batch: the loop never ends in the
\* error exit once a file was attempted, results holds one outcome per
\* attempted file in input order, all files are attempted by the end, and
\* a step that records a failure rolls nothing back (no file or directory
\* that was there before the step is gone after it).
C3_ResultsInInputOrder ==
  /\ pc \in {"organize", "done"} => Len(results) = idx - 1
  /\ \A k \in DOMAIN results :
       /\ k <= Len(all_metadata)
       /\ results[k].source = Str(all_metadata[k][FILE_PATH])
  /\ (pc = "done" /\ preview = <<>>) => Len(results) = Len(all_metadata)
  /\ pc = "error" => results = <<>>

C3_FailureStep ==
  /\ Len(results') = Len(results) + 1
  /\ ~results'[Len(results')].ok

C3_BatchIsolation ==
  /\ []C3_ResultsInInputOrder
  /\ [][C3_FailureStep =>
          /\ fs.files \subseteq fs'.files
          /\ fs.dirs \subseteq fs'.dirs
          /\ pc' \in {"organize", "done"}]_vars

C3_Witness ==
  /\ pc = "done"
  /\ ~(driver = "api" /\ dry_run)
  /\ Len(results) = 3
  /\ results[1].ok /\ ~results[2].ok /\ results[3].ok
  /\ results[1].dest \in fs.files
  /\ results[3].dest \in fs.files

\* C4: the filename returned by generate_filename, extension included,
\* contains none of the characters < > : " / \ | ? *.
C4_NoReservedCharacters ==
  n_state = "done" =>
    \A k \in 1..Len(n_result.name) : n_result.name[k] \notin InvalidChars

\* C5: in dry-run mode no step changes the filesystem (no directory is
\* created, no file is moved, copied or deleted).
C5_DryRunFrame == [][dry_run => fs' = fs]_vars

C5_Witness ==
  /\ dry_run
  /\ driver = "api"
  /\ pc = "done"
  /\ \E k \in DOMAIN results : results[k].ok /\ Dirname(results[k].dest) \notin fs.dirs
  /\ fs = fs0

\* C6: every destination reported in dry-run mode (results of
\* organize_file(dry_run=True), paths of the CLI preview) is the path a
\* real run of that file would use from the same filesystem state.
C6_RealRun(k) ==
  organize_file(destination, hierarchy_pattern,
                Str(all_metadata[k][FILE_PATH]), all_metadata[k],
                new_filenames[k], FALSE, move, fs, "none")

C6_DryRunReportsFinalPath ==
  (pc = "done" /\ dry_run) =>
    /\ \A k \in DOMAIN results :
         results[k].ok => results[k].dest = C6_RealRun(k).dest
    /\ \A k \in DOMAIN preview :
         ~C6_RealRun(k).raised => preview[k] = C6_RealRun(k).dest

\* braces of a template are well formed: every "{" opens a non-empty name
\* of word characters closed by "}", and every "}" closes one
BracesWellFormed(t) ==
  \A k \in 1..Len(t) :
    /\ t[k] = "{" =>
         \E j \in (k + 2)..Len(t) :
           /\ t[j] = "}"
           /\ \A m \in (k + 1)..(j - 1) : t[m] \in WordChars
    /\ t[k] = "}" =>
         \E j \in 1..(k - 2) :
           /\ t[j] = "{"
           /\ \A m \in (j + 1)..(k - 1) : t[m] \in WordChars

Malformed(t) == t # None /\ ~BracesWellFormed(t)

\* C7: no run touches a file or creates a directory while the naming
\* template or the hierarchy template is malformed.
C7_MalformedTemplateTouchesNothing ==
  fs # fs0 => ~Malformed(naming_pattern) /\ ~Malformed(folder_hierarchy)

\* the naming half of C7 alone
C7_MalformedNamingTouchesNothing ==
  fs # fs0 => ~Malformed(naming_pattern)

\* C8: _validate_pattern accepts exactly the non-empty strings made of
\* brace-free text and {name} placeholders with a \w+ name; it rejects
\* "{a{b}}" and "{}" and accepts "{a}{b}", "{a}_{b}" and "flat".
C8_ValidationAcceptsTemplates ==
  t_state = "validated" =>
    /\ t_valid = "ok" <=> (t_arg # <<>> /\ BracesWellFormed(t_arg))
    /\ t_arg \in {EX_NESTED, EX_EMPTY_NAME} => t_valid # "ok"
    /\ t_arg \in {EX_ADJACENT, EX_UNDERSCORE, FLAT} => t_valid = "ok"
    /\ Count(t_arg, "{") # Count(t_arg, "}") => t_valid # "ok"

C8_Witness ==
  /\ t_state = "validated"
  /\ t_arg = EX_NESTED
  /\ t_valid = "ValueError: Naming pattern has invalid placeholder format"

\* C9: NamingEngine(pattern="") never succeeds.
C9_EmptyPatternRejected ==
  (t_state = "constructed" /\ t_arg = <<>>) => ~t_engine.ok

\* one left-to-right pass over the tokens of a validated pattern: literal
\* characters are copied, a placeholder is replaced by its value, or by
\* nothing when the attribute is absent or empty
RECURSIVE TokenPass(_, _, _)
TokenPass(pattern, metadata, k) ==
  IF k > Len(pattern) THEN <<>>
  ELSE IF pattern[k] = "{"
       THEN LET j    == NextBrace(pattern, k + 1)
                name == SubSeq(pattern, k + 1, j - 1)
            IN  (IF name \in DOMAIN metadata THEN Str(metadata[name]) ELSE <<>>)
                  \o TokenPass(pattern, metadata, j + 1)
       ELSE <<pattern[k]>> \o TokenPass(pattern, metadata, k + 1)

Absent(metadata, name) ==
  name \notin DOMAIN metadata \/ Str(metadata[name]) = <<>>

BraceFreeValues(metadata) ==
  \A key \in DOMAIN metadata : "{" \notin Range(Str(metadata[key]))

C11_EmptyValued(v) == v = StrV(<<>>) \/ v = IntV(0)

\* what the placeholder name of a segment stands for
C11_Replacement(metadata, name) ==
  IF name \notin DOMAIN metadata \/ C11_EmptyValued(metadata[name])
  THEN UNKNOWN
  ELSE Str(metadata[name])

\* one left-to-right pass over the tokens of a segment
RECURSIVE C11_Pass(_, _, _)
C11_Pass(segment, metadata, k) ==
  IF k > Len(segment) THEN <<>>
  ELSE IF segment[k] = "{"
       THEN LET j == NextBrace(segment, k + 1) IN
            C11_Replacement(metadata, SubSeq(segment, k + 1, j - 1))
              \o C11_Pass(segment, metadata, j + 1)
       ELSE <<segment[k]>> \o C11_Pass(segment, metadata, k + 1)

\* the non-empty segments of a template, in order
C11_Segments(pattern) ==
  SelectSeq(Split(pattern), LAMBDA segment : segment # <<>>)

\* C11: in determine_destination_path every placeholder of a segment whose
\* attribute is missing or empty-valued is replaced by "unknown" and every
\* other placeholder by its value as it is (for values that contain no
\* brace); "{year}/{month}" with year 2023 and no month gives
\* base/2023/unknown.
C11_UnknownForMissing ==
  (d_state = "done" /\ d_pattern # <<>>) =>
    /\ BraceFreeValues(d_metadata) =>
         /\ Len(d_segments) = Len(C11_Segments(d_pattern))
         /\ \A k \in DOMAIN d_segments :
              d_segments[k] = C11_Pass(C11_Segments(d_pattern)[k], d_metadata, 1)
    /\ (/\ d_pattern = Braced(YEAR) \o <<"/">> \o Braced(MONTH)
        /\ d_metadata = (YEAR :> StrV(Y2023))) =>
         d_result = DEST \o <<"/">> \o Y2023 \o <<"/">> \o UNKNOWN

C11_Witness ==
  /\ d_state = "done"
  /\ d_hierarchy = Braced(YEAR) \o <<"/">> \o Braced(MONTH)
  /\ d_metadata = (YEAR :> StrV(Y2023))
  /\ d_segments = <<Y2023, UNKNOWN>>
  /\ d_result = DEST \o <<"/">> \o Y2023 \o <<"/">> \o UNKNOWN

SlashFreeValues(metadata) ==
  \A key \in DOMAIN metadata : "/" \notin Range(Str(metadata[key]))

\* the path base/s1/.../sn
RECURSIVE C12_Below(_, _, _)
C12_Below(base, segments, k) ==
  IF k > Len(segments) THEN base
  ELSE C12_Below(base \o <<"/">> \o segments[k], segments, k + 1)

\* C12: every segment determine_destination_path joins below the base is
\* non-empty, whatever the template and the attribute map: the empty
\* segments of the template are skipped (one joined segment per non-empty
\* template segment) and no substitution leaves a segment empty; for values
\* without "/" the result is base/s1/.../sn with every component non-empty.
C12_SegmentsNonEmpty ==
  d_state = "done" =>
    /\ \A k \in DOMAIN d_segments : d_segments[k] # <<>>
    /\ d_pattern # <<>> =>
         Len(d_segments) = Cardinality({k \in DOMAIN Split(d_pattern) :
                                         Split(d_pattern)[k] # <<>>})
    /\ SlashFreeValues(d_metadata) =>
         /\ d_result = C12_Below(DEST, d_segments, 1)
         /\ \A k \in 1..(Len(d_result) - 1) :
              ~(d_result[k] = "/" /\ d_result[k + 1] = "/")
         /\ d_result[Len(d_result)] # "/"

C12_Witness ==
  /\ d_state = "done"
  /\ d_hierarchy = <<"/">> \o Braced(YEAR) \o <<"/", "/">> \o Braced(MONTH) \o <<"/">>
  /\ d_metadata = (YEAR :> StrV(<<>>)) @@ (MONTH :> StrV(M05))
  /\ d_segments = <<UNKNOWN, M05>>
  /\ d_result = DEST \o <<"/">> \o UNKNOWN \o <<"/">> \o M05

\* C13: with hierarchy None, "" or "flat", determine_destination_path
\* returns the base directory itself for every attribute map: no segment is
\* joined.
C13_FlatReturnsBase ==
  (d_state = "done" /\ d_hierarchy \in {None, <<>>, FLAT}) =>
    /\ d_result = DEST
    /\ d_segments = <<>>

C13_Witness ==
  /\ d_state = "done"
  /\ d_hierarchy = FLAT
  /\ d_metadata = (YEAR :> StrV(Y2023)) @@ (MONTH :> StrV(M05))
  /\ d_result = DEST

\* the attribute map has a non-empty extension
C14_HasExtension(metadata) ==
  EXTENSION \in DOMAIN metadata /\ Str(metadata[EXTENSION]) # <<>>

\* C14: generate_filename returns the sanitized substituted stem followed
\* by "." and the extension, as it is in the map, exactly when the map has a
\* non-empty extension, and the sanitized stem alone otherwise;
\* {date}_{camera}_{original_filename} with date 2023-05-01, camera
\* Canon_EOS, original_filename IMG_001 and extension jpg gives
\* 2023-05-01_Canon_EOS_IMG_001.jpg.
C14_ExtensionAppended ==
  n_state = "done" =>
    LET stem == clean_filename(SubstituteName(n_pattern, FindAll(n_pattern),
                                              n_metadata, 1))
    IN  /\ C14_HasExtension(n_metadata) =>
             n_result.name = stem \o <<".">> \o Str(n_metadata[EXTENSION])
        /\ ~C14_HasExtension(n_metadata) => n_result.name = stem
        /\ (n_pattern = P_DATE_CAMERA_ORIGINAL /\ n_metadata = PhotoMetadata) =>
             n_result.name = <<"2", "0", "2", "3", "-", "0", "5", "-", "0", "1", "_", "C", "a", "n", "o", "n", "_", "E", "O", "S", "_", "I", "M", "G", "_", "0", "0", "1", ".", "j", "p", "g">>

C14_Witness ==
  /\ n_state = "done"
  /\ n_pattern = P_DATE_CAMERA_ORIGINAL
  /\ n_metadata = PhotoMetadata
  /\ n_result.name = <<"2", "0", "2", "3", "-", "0", "5", "-", "0", "1", "_", "C", "a", "n", "o", "n", "_", "E", "O", "S", "_", "I", "M", "G", "_", "0", "0", "1", ".", "j", "p", "g">>

\* C15: the name generate_filename returns is the sanitized single
\* left-to-right pass over the tokens of the pattern, also when a
\* substituted value contains {name}-shaped text.
C15_SinglePass ==
  n_state = "done" =>
    n_result.name =
      AppendExtension(clean_filename(TokenPass(n_pattern, n_metadata, 1)),
                      n_metadata)

\* C16: _clean_filename is idempotent, and its result has no character of
\* < > : " / \ | ? *, no two underscores in a row, no underscore at either
\* end, and is never empty.
C16_CleanIdempotent ==
  /\ c_state \in {"once", "twice"} =>
       /\ c_once # <<>>
       /\ \A k \in DOMAIN c_once : c_once[k] \notin InvalidChars
       /\ \A k \in 1..(Len(c_once) - 1) :
            ~(c_once[k] = "_" /\ c_once[k + 1] = "_")
       /\ c_once[1] # "_"
       /\ c_once[Len(c_once)] # "_"
  /\ c_state = "twice" => c_twice = c_once

C16_Witness ==
  /\ c_state = "twice"
  /\ c_input = <<"/", "x", "*", "_">>
  /\ c_once = <<"x">>
  /\ c_twice = <<"x">>

\* a step of the loop that calls organize_file on a file whose source path
\* is not an existing regular file
C17_MissingSourceStep ==
  /\ pc = "organize"
  /\ Len(results') = Len(results) + 1
  /\ Str(all_metadata[idx][FILE_PATH]) \notin fs.files

\* C17: organize_file on a source path that does not exist fails with
\* FileNotFoundError and leaves the filesystem as it was: no destination
\* directory is created, no file is moved or copied for that file.
C17_MissingSourceTouchesNothing ==
  [][C17_MissingSourceStep =>
       /\ fs' = fs
       /\ ~results'[idx].ok
       /\ results'[idx].error = "FileNotFoundError"
       /\ results'[idx].source = Str(all_metadata[idx][FILE_PATH])
       /\ last_call'.stage = "missing"]_vars

C17_Witness ==
  /\ ~(driver = "api" /\ dry_run)
  /\ Len(results) = 1
  /\ results[1].error = "FileNotFoundError"
  /\ last_call.stage = "missing"
  /\ DEST \notin fs.dirs
  /\ fs = fs0

C19_FallbackIsReported ==
  last_call.fallback => "NonAtomicMoveFallback" \in last_call.warnings

\* the step on which the interrupt is observed
C20_CancelStep == ~interrupted /\ interrupted'

\* C20: once the interrupt was observed the run is over: no further file is
\* applied (results, the position in the batch and the filesystem stay as
\* they are), and the step that observes it undoes nothing of the files
\* already applied: their destinations are still there and a moved source
\* does not come back.
C20_CancellationStops ==
  /\ [](interrupted => pc = "canceled")
  /\ [][interrupted => (results' = results /\ idx' = idx /\ fs' = fs)]_vars
  /\ [][C20_CancelStep =>
          /\ results' = results
          /\ fs.dirs \subseteq fs'.dirs
          /\ \A k \in DOMAIN results :
               results[k].ok =>
                 /\ results[k].dest \in fs.files => results[k].dest \in fs'.files
                 /\ results[k].source \notin fs.files =>
                      results[k].source \notin fs'.files]_vars

C20_Witness ==
  /\ interrupted
  /\ move
  /\ ~(driver = "api" /\ dry_run)
  /\ Len(results) = 1
  /\ Len(all_metadata) = 3
  /\ results[1].ok
  /\ results[1].dest \in fs.files
  /\ results[1].source \notin fs.files
  /\ Str(all_metadata[2][FILE_PATH]) \in fs.files
  /\ \E f \in fs.files : f \notin fs0.files /\ f # results[1].dest

\* C21: between handle_duplicates and the move/copy nothing protects the
\* path: the path handle_duplicates returns is free when it is probed, and
\* when a file is there by the time shutil.move / shutil.copy2 runs (put
\* there by the other call or by another process) it is replaced and the
\* call reports success.
C21_RaceWindowUnprotected ==
  /\ [][\A w \in Workers :
          (r_pc[w] = "probe" /\ r_pc'[w] = "makedirs") =>
            r_dest'[w] \notin Exists(RaceFs)]_vars
  /\ [][\A w \in Workers :
          (/\ r_pc[w] = "transfer" /\ r_pc'[w] = "done"
           /\ r_dest[w] \in DOMAIN r_owner) =>
            /\ r_result'[w] = "ok"
            /\ r_owner'[r_dest[w]] = RaceContent(w)
            /\ r_overwrote'[w] = r_owner[r_dest[w]]]_vars

\* both calls got the same destination and the second replaced the file of
\* the first; with move, the first file is nowhere any more
C21_Witness ==
  /\ r_move
  /\ r_external = 0
  /\ \A w \in Workers : r_pc[w] = "done" /\ r_result[w] = "ok"
  /\ r_dest[1] = r_dest[2]
  /\ r_overwrote[2] = "f1"
  /\ \A path \in DOMAIN r_owner : r_owner[path] # "f1"

\* the options that set a boolean setting
C22_FlagsOf(key) ==
  CASE key = "move"      -> {"--move", "--copy"}
    [] key = "dry_run"   -> {"--dry-run"}
    [] key = "backup"    -> {"--backup"}
    [] key = "recursive" -> {"--recursive", "--no-recursive"}

\* the value of a setting before the command line is looked at
C22_Configured(key) ==
  IF g_file.given /\ key \in DOMAIN g_file.settings THEN g_file.settings[key]
  ELSE DEFAULT_CONFIG[key]

\* C22: a boolean setting (move, dry_run, backup, recursive) whose option
\* is not on the command line keeps the value of the configuration file,
\* or the default when the file does not set it.
C22_AbsentFlagKeepsValue ==
  (g_state = "done" /\ g_config.raised = "none") =>
    \A key \in {"move", "dry_run", "backup", "recursive"} :
      C22_FlagsOf(key) \cap g_flags = {} =>
        g_config.config[key] = C22_Configured(key)

\* the batch is applied to the filesystem: the CLI loop, or organize_files
\* called with dry_run=False
AppliedRun == ~(driver = "api" /\ dry_run)

\* a step in which organize_file reached shutil.move / shutil.copy2
C23_TransferStep ==
  /\ Len(results') = Len(results) + 1
  /\ last_call'.stage = "transfer"

\* the files of the destination tree that are not sources of the batch
C23_Bystanders == fs0.files \ Sources(all_metadata)

C23_NothingLost ==
  AppliedRun =>
    /\ C23_Bystanders \subseteq fs.files
    /\ \A k \in DOMAIN results : results[k].ok =>
         /\ results[k].dest \in fs.files
         /\ results[k].dest \notin C23_Bystanders
         /\ \A j \in DOMAIN results :
              (j # k /\ results[j].ok) => results[j].dest # results[k].dest

\* C23: files are applied one at a time and nothing else writes to the
\* destination tree: the path organize_file moves or copies onto does not
\* exist when the move or copy is made, and every file that was in the
\* destination tree before the batch and every file placed earlier in the
\* batch is still at its own path afterwards, no later file having been
\* written onto it.
C23_NoOverwriteSequential ==
  /\ [][C23_TransferStep =>
          /\ probe'.called
          /\ probe'.exists = Exists(fs)
          /\ probe'.result \notin Exists(fs)]_vars
  /\ []C23_NothingLost

C23_Witness ==
  /\ pc = "done"
  /\ AppliedRun
  /\ {DEST_A, DEST_A1} \subseteq fs0.files
  /\ Len(results) = 3
  /\ results[1].ok /\ results[1].dest = DEST_A2
  /\ results[3].ok /\ results[3].dest = Numbered(DEST_A, 3)
  /\ {DEST_A, DEST_A1, DEST_A2, Numbered(DEST_A, 3)} \subseteq fs.files

\* the path organize_file hands to handle_duplicates for file k
C24_Candidate(k) ==
  Join(determine_destination_path(destination, hierarchy_pattern, all_metadata[k]), new_filenames[k])

\* neither the candidate nor one of its numbered names existed beforehand
C24_FamilyFree(candidate) ==
  /\ candidate \notin Exists(fs0)
  /\ \A n \in 1..Len(all_metadata) : Numbered(candidate, n) \notin Exists(fs0)

\* file k is the i-th of the files resolving to its candidate, all placed,
\* and is at the candidate (i = 1) or at suffix _(i-1)
C24_InOrder(k) ==
  LET candidate == C24_Candidate(k)
      earlier   == {j \in 1..(k - 1) : C24_Candidate(j) = candidate}
  IN  (/\ C24_FamilyFree(candidate)
       /\ \A j \in earlier : results[j].ok) =>
        results[k].dest =
          IF earlier = {} THEN candidate
          ELSE Numbered(candidate, Cardinality(earlier))

\* C24: in a batch applied file by file, when the files that resolve to one
\* candidate path find neither it nor its numbered names taken beforehand,
\* the first of them to be placed gets the candidate itself and the i-th
\* (i >= 2) gets the suffix _(i-1), in processing order.  results only
\* grows, so the property is stated of the file placed last.
C24_SuffixesInProcessingOrder ==
  (AppliedRun /\ results # <<>> /\ results[Len(results)].ok) =>
    C24_InOrder(Len(results))

C24_Witness ==
  /\ pc = "done"
  /\ AppliedRun
  /\ Len(results) = 3
  /\ \A k \in 1..3 : results[k].ok /\ C24_Candidate(k) = C24_Candidate(1)
  /\ C24_FamilyFree(C24_Candidate(1))
  /\ results[1].dest = C24_Candidate(1)
  /\ results[2].dest = Numbered(C24_Candidate(1), 1)
  /\ results[3].dest = Numbered(C24_Candidate(1), 2)

\* path is base_dir or lies beneath it: base_dir, a separator, and more
C25_AtOrBeneath(base_dir, path) ==
  \/ path = base_dir
  \/ /\ Len(path) > Len(base_dir) + 1
     /\ SubSeq(path, 1, Len(base_dir) + 1) = base_dir \o <<"/">>

\* C25: the directory determine_destination_path returns is base_dir or a
\* path beneath base_dir, for every hierarchy and every attribute map,
\* whatever characters the attribute values contain.
C25_StaysBeneathBase ==
  d_state = "done" => C25_AtOrBeneath(DEST, d_result)

\* the file whose result was recorded last was handed to handle_duplicates
\* with its own path as the candidate
C26_OwnPathIsCandidate ==
  /\ results # <<>>
  /\ results[Len(results)].ok
  /\ probe.called
  /\ probe.filepath = results[Len(results)].source

\* the numbered name the file recorded last was given: the first free one
C26_RenamedToFirstFree ==
  C26_OwnPathIsCandidate =>
    LET source == results[Len(results)].source
        dest   == results[Len(results)].dest
    IN  /\ source \in probe.exists
        /\ \E n \in 1..(Len(all_metadata) + 1) :
             /\ dest = Numbered(source, n)
             /\ dest \notin probe.exists
             /\ \A m \in 1..(n - 1) : Numbered(source, m) \in probe.exists

\* a step that records a file moved although its candidate was its own path
C26_MovedInPlace ==
  /\ Len(results') = Len(results) + 1
  /\ C26_OwnPathIsCandidate'
  /\ AppliedRun
  /\ move

\* C26: organize_file never returns a destination equal to its source
\* path; a file whose candidate is the path it is at collides with itself
\* and gets stem_1.ext, or the first numbered name that is free, so a run
\* whose destination is its source directory renames the files it finds in
\* place instead of leaving them.
C26_NeverOntoItself ==
  /\ [](\A k \in DOMAIN results : results[k].ok => results[k].dest # results[k].source)
  /\ []C26_RenamedToFirstFree
  /\ [][C26_MovedInPlace =>
          /\ results'[Len(results')].source \notin fs'.files
          /\ results'[Len(results')].dest \in fs'.files]_vars

C26_Witness ==
  /\ pc = "done"
  /\ AppliedRun
  /\ move
  /\ Len(results) = 2
  /\ results[1].ok /\ results[1].source = SourcePath(1)
  /\ results[1].dest = Numbered(SourcePath(1), 1)
  /\ results[2].ok /\ results[2].source = SourcePath(2)
  /\ results[2].dest = Numbered(SourcePath(2), 1)
  /\ fs.files = {Numbered(SourcePath(1), 1), Numbered(SourcePath(2), 1)}

\* the preset names of HIERARCHY_TEMPLATES, which only the engine expands;
\* they are names of hierarchies, the claim is about the patterns
C27_IsPreset == s_pattern \in DOMAIN HIERARCHY_TEMPLATES

C27_NamesAgree == (s_state = "done" /\ s_kind = "name") => s_tool = s_engine

C27_FoldersAgree ==
  (s_state = "done" /\ s_kind = "folder" /\ ~C27_IsPreset) => s_tool = s_engine

\* C27: the simulation tool agrees with the engine: for every naming
\* pattern and attribute map test_filename_generation returns the filename
\* generate_filename returns, and for every hierarchy pattern and attribute
\* map simulate_folder_path appends below its root the segments
\* determine_destination_path appends below base_dir.
C27_ToolAgreesWithEngine == C27_NamesAgree /\ C27_FoldersAgree

====
